---- MODULE Spec2Model ----
(***************************************************************************)
(* Model of the integration SDK runtime: the step scheduler               *)
(* (executeIntegrationInstance), the per-step job state with its          *)
(* duplicate-key detection, the partial-dataset summary, and the           *)
(* synchronization uploader (synchronizeCollectedData, uploadData,         *)
(* uploadDataChunk, shrinkRawData).                                        *)
(***************************************************************************)
EXTENDS Integers, Sequences, FiniteSets, TLC

\* ---------------------------------------------------------------- bounds
MaxAdds == 1           \* jobState add calls one handler makes
Concurrency == 2       \* step handlers in flight at once

\* ------------------------------------------------------------- universes
\* integrationSteps holds three steps, identified by their position: the
\* smallest step set in which a chain, a fork and a join of dependsOn occur
integrationSteps == << 1, 2, 3 >>
Steps == { integrationSteps[i] : i \in 1..Len(integrationSteps) }

\* StepResultStatus
SUCCESS == "success"
FAILURE == "failure"
PARTIAL_SUCCESS_DUE_TO_DEPENDENCY_FAILURE == "partial_success_from_dependency_failure"
DISABLED == "disabled"
CANCELLED == "cancelled"
\* scheduler-internal states of a step that has no result yet
PENDING == "pending"
RUNNING == "running"

TerminalStatuses ==
  {SUCCESS, FAILURE, PARTIAL_SUCCESS_DUE_TO_DEPENDENCY_FAILURE, DISABLED, CANCELLED}

\* the entities / relationships declarations a step may carry:
\* sequences of {_type, partial?}
StepDeclarations ==
  { << [_type |-> "test_a", partial |-> FALSE] >>,
    << [_type |-> "test_b", partial |-> TRUE], [_type |-> "test_c", partial |-> FALSE] >> }

VARIABLES
  dependsOn,          \* step -> set of step ids it depends on
  stepStartStates,    \* step -> [disabled: BOOLEAN], result of getStepStartStates
  startStatesMissing, \* steps that result of getStepStartStates has no entry for
  declarations,       \* step -> its entities/relationships declarations
  phase,              \* "validate" | "startStates" | "startStatesPending" | "collect" | "done"
  status,             \* step -> PENDING | RUNNING | a StepResultStatus
  invoked,            \* step -> number of executionHandler invocations
  adds,               \* step -> number of jobState add calls made so far
  stepError,          \* step -> "none" | "handler" | "duplicate"
  encounteredTypes,   \* step -> sequence of _type values it wrote
  graphObjectStore,   \* sequence of admitted entities [_key, _type, stepId]
  validationFailures, \* number of logger.validationFailure calls
  outcome,            \* what executeIntegrationInstance settled with
  options,            \* [locally, enableSchemaValidation, afterExecution]: how the run
                      \* was entered and what it was given
  env,                \* process.env.ENABLE_GRAPH_OBJECT_SCHEMA_VALIDATION: [atStart, marker],
                      \* the value when the run was entered and the value now
  afterExecution,     \* [calls, threw]: the invocations of the afterExecution hook
  summaryJson,        \* the content of summary.json, << >> before it is written
  flushed             \* the positions of graphObjectStore that were flushed to disk

\* the cancellation signal given to the run
VARIABLES
  signal

\* a call of generateRelationshipType: [pc, _class, from, to, _type]
VARIABLES
  relationship

\* the synchronization uploader
VARIABLES
  entry,              \* the exported function the caller entered through
  files,              \* the parsed graph files: sequence of [entities, relationships]
  uploadBatchSize,    \* the optional uploadBatchSize argument, 0 when not given
  partialDatasets,    \* metadata.partialDatasets of summary.json
  faultsLeft,         \* failed responses the service still gives in this run
  pc,                 \* where the entered function stands
  cursor,             \* [file, type] of the uploadData call in progress
  batches,            \* the batches of that call, each with its retry state
  api,                \* the requests the job API has received, the graph objects
                      \* it has accepted, and the status of the job
  lastPost,           \* the latest batch POST: [batch, type, data]
  lastFailure,        \* the latest failed batch POST and what its handler did
  caught,             \* the error the catch block of synchronizeCollectedData holds
  logged,             \* what synchronizeCollectedData gave to logger.error, in order
  result,             \* what the entered function settled with
  eventQueue,         \* the event publishing queue: [enqueued, published, settle]
  shrinking           \* the shrinkRawData call in progress

uploader == << entry, files, uploadBatchSize, partialDatasets, faultsLeft, pc, cursor,
               batches, api, lastPost, lastFailure, caught, logged, result, eventQueue,
               shrinking >>

scheduler == << dependsOn, stepStartStates, startStatesMissing, declarations, phase, status,
                invoked, adds, stepError, encounteredTypes, graphObjectStore,
                validationFailures, outcome, options, env, afterExecution, summaryJson,
                flushed >>

vars == << scheduler, uploader, signal, relationship >>

config == << dependsOn, stepStartStates, startStatesMissing, declarations, options >>

\* the storage directory of the run
disk == << summaryJson, flushed >>

\* --------------------------------------------------------------- helpers
Range(seq) == { seq[i] : i \in 1..Len(seq) }

RECURSIVE uniq(_)
uniq(seq) ==
  IF seq = << >> THEN << >>
  ELSE LET init == uniq(SubSeq(seq, 1, Len(seq) - 1))
           last == seq[Len(seq)]
       IN IF last \in Range(init) THEN init ELSE Append(init, last)

RECURSIVE typesOf(_, _)
typesOf(decl, onlyPartial) ==
  IF decl = << >> THEN << >>
  ELSE LET rest == typesOf(Tail(decl), onlyPartial)
       IN IF onlyPartial /\ ~Head(decl).partial
          THEN rest
          ELSE << Head(decl)._type >> \o rest

declaredTypes(s) == typesOf(declarations[s], FALSE)
partialTypes(s) == typesOf(declarations[s], TRUE)

\* ------------------------------------------------------ partial datasets
\* one entry of integrationStepResults
stepResult(s) ==
  [ id |-> s,
    declaredTypes |-> declaredTypes(s),
    partialTypes |-> partialTypes(s),
    encounteredTypes |-> encounteredTypes[s],
    dependsOn |-> dependsOn[s],
    status |-> status[s] ]

\* variant: only FAILURE counts, a dependency failure does not
stepPartialDatasetTypesFailureOnly(r) ==
  (IF r.status # DISABLED THEN r.partialTypes ELSE << >>)
  \o (IF r.status = FAILURE THEN r.declaredTypes ELSE << >>)

\* variant: a step that did not fail contributes nothing
stepPartialDatasetTypesOnFailureOnly(r) ==
  IF r.status \in {FAILURE, PARTIAL_SUCCESS_DUE_TO_DEPENDENCY_FAILURE}
  THEN r.partialTypes \o r.declaredTypes
  ELSE << >>

\* variant: partialTypes are taken whatever the status, DISABLED included
stepPartialDatasetTypesAnyStatus(r) ==
  r.partialTypes
  \o (IF r.status \in {FAILURE, PARTIAL_SUCCESS_DUE_TO_DEPENDENCY_FAILURE}
      THEN r.declaredTypes ELSE << >>)

\* the types one step result contributes to metadata.partialDatasets.types
stepPartialDatasetTypes(r) ==
  (IF r.status # DISABLED THEN r.partialTypes ELSE << >>)
  \o (IF r.status \in {FAILURE, PARTIAL_SUCCESS_DUE_TO_DEPENDENCY_FAILURE}
      THEN r.declaredTypes ELSE << >>)

RECURSIVE determinePartialDatasets(_)
determinePartialDatasets(results) ==
  IF results = << >> THEN << >>
  ELSE uniq(determinePartialDatasets(SubSeq(results, 1, Len(results) - 1))
            \o stepPartialDatasetTypes(results[Len(results)]))

\* ---------------------------------------------------------- summary.json
RECURSIVE sorted(_)
\* the dependsOn array of a step: its ids in ascending order
sorted(S) ==
  IF S = {} THEN << >>
  ELSE LET least == CHOOSE x \in S : \A y \in S : x <= y
       IN << least >> \o sorted(S \ {least})

\* variant: dependsOn is not written
stringifyStepResultWithoutDependsOn(r) ==
  << [key |-> "id", value |-> r.id],
     [key |-> "declaredTypes", value |-> r.declaredTypes],
     [key |-> "partialTypes", value |-> r.partialTypes],
     [key |-> "encounteredTypes", value |-> r.encounteredTypes],
     [key |-> "status", value |-> r.status] >>

\* JSON.stringify of one step result: its members in order, a member whose
\* value is undefined (dependsOn of a step that has none) is left out
stringifyStepResult(r) ==
  << [key |-> "id", value |-> r.id],
     [key |-> "declaredTypes", value |-> r.declaredTypes],
     [key |-> "partialTypes", value |-> r.partialTypes],
     [key |-> "encounteredTypes", value |-> r.encounteredTypes] >>
  \o (IF r.dependsOn = {} THEN << >>
      ELSE << [key |-> "dependsOn", value |-> sorted(r.dependsOn)] >>)
  \o << [key |-> "status", value |-> r.status] >>

\* the document written to summary.json
stringifySummary(results, types) ==
  << [key |-> "integrationStepResults",
      value |-> [i \in 1..Len(results) |-> stringifyStepResult(results[i])]],
     [key |-> "metadata",
      value |-> << [key |-> "partialDatasets",
                    value |-> << [key |-> "types", value |-> types] >>] >>] >>

hasMember(object, key) == \E i \in 1..Len(object) : object[i].key = key
member(object, key) ==
  object[CHOOSE i \in 1..Len(object) : object[i].key = key].value

\* JSON.parse of one step result: a member that is not there reads undefined
parseStepResult(object) ==
  [ id |-> member(object, "id"),
    declaredTypes |-> member(object, "declaredTypes"),
    partialTypes |-> member(object, "partialTypes"),
    encounteredTypes |-> member(object, "encounteredTypes"),
    dependsOn |-> IF hasMember(object, "dependsOn")
                  THEN Range(member(object, "dependsOn")) ELSE {},
    status |-> member(object, "status") ]

\* readJsonFromPath('summary.json')
parseSummary(document) ==
  LET results == member(document, "integrationStepResults")
  IN [ integrationStepResults |->
         [i \in 1..Len(results) |-> parseStepResult(results[i])],
       types |-> member(member(member(document, "metadata"), "partialDatasets"), "types") ]

\* ------------------------------------------------------------- job state
\* the store moves the buffered objects of step s to that step's files
flush(s, store) == flushed \cup { i \in 1..Len(store) : store[i].stepId = s }

NoEntity == [_key |-> "none", _type |-> "none", stepId |-> 0]

\* variant: only the in-memory buffer is consulted
findEntityInMemoryOnly(key) ==
  LET buffered == { i \in (1..Len(graphObjectStore)) \ flushed : graphObjectStore[i]._key = key }
  IN IF buffered # {} THEN graphObjectStore[CHOOSE i \in buffered : TRUE]
     ELSE NoEntity

\* jobState.findEntity: the in-memory buffer first, then what was flushed
findEntity(key) ==
  LET buffered == { i \in (1..Len(graphObjectStore)) \ flushed : graphObjectStore[i]._key = key }
      onDisk == { i \in flushed : graphObjectStore[i]._key = key }
  IN IF buffered # {} THEN graphObjectStore[CHOOSE i \in buffered : TRUE]
     ELSE IF onDisk # {} THEN graphObjectStore[CHOOSE i \in onDisk : TRUE]
     ELSE NoEntity

isOfType(e, type) == e._type = type

\* jobState.iterateEntities({_type}): every entity of the type, flushed or
\* buffered, in insertion order
iterateEntities(type) ==
  LET ofType(e) == isOfType(e, type) IN SelectSeq(graphObjectStore, ofType)

hasKey(store, key) == \E i \in 1..Len(store) : store[i]._key = key

\* variant: keys are tracked per step, not per run
addOnePerStepTracker(acc, s, e) ==
  IF acc.duplicate THEN acc
  ELSE IF \E i \in 1..Len(acc.store) :
            acc.store[i]._key = e._key /\ acc.store[i].stepId = s
       THEN [acc EXCEPT !.duplicate = TRUE]
       ELSE [ store |-> Append(acc.store, [_key |-> e._key, _type |-> e._type, stepId |-> s]),
              types |-> uniq(Append(acc.types, e._type)),
              duplicate |-> FALSE ]

\* variant: the _type is recorded before the key is checked
addOneTypeFirst(acc, s, e) ==
  IF acc.duplicate THEN acc
  ELSE IF hasKey(acc.store, e._key)
       THEN [acc EXCEPT !.duplicate = TRUE, !.types = uniq(Append(acc.types, e._type))]
       ELSE [ store |-> Append(acc.store, [_key |-> e._key, _type |-> e._type, stepId |-> s]),
              types |-> uniq(Append(acc.types, e._type)),
              duplicate |-> FALSE ]

\* one entity through the add path of step s: a duplicate _key is rejected,
\* anything else is admitted and its _type recorded for the step
addOne(acc, s, e) ==
  IF acc.duplicate THEN acc
  ELSE IF hasKey(acc.store, e._key)
       THEN [acc EXCEPT !.duplicate = TRUE]
       ELSE [ store |-> Append(acc.store, [_key |-> e._key, _type |-> e._type, stepId |-> s]),
              types |-> uniq(Append(acc.types, e._type)),
              duplicate |-> FALSE ]

RECURSIVE addAll(_, _, _)
addAll(acc, s, batch) ==
  IF batch = << >> THEN acc
  ELSE addAll(addOne(acc, s, Head(batch)), s, Tail(batch))

\* the graph objects a handler may hand to jobState
Entities == { [_key |-> "key_a", _type |-> "test_a"], [_key |-> "key_b", _type |-> "test_b"] }
Batches == { << e >> : e \in Entities } \cup { << e, f >> : e \in Entities, f \in Entities }

\* ------------------------------------------------------------- scheduler
inFlight == { s \in Steps : status[s] = RUNNING }

\* variant: one terminated dependency is enough
dependenciesTerminatedAny(s) ==
  dependsOn[s] = {} \/ \E d \in dependsOn[s] : status[d] \in TerminalStatuses

\* variant: a step waits for its dependencies to succeed
dependenciesSucceeded(s) == \A d \in dependsOn[s] : status[d] = SUCCESS

dependenciesTerminated(s) == \A d \in dependsOn[s] : status[d] \in TerminalStatuses

\* variant: only a dependency in FAILURE counts
stepHasFailedDependency(s) == \E d \in dependsOn[s] : status[d] = FAILURE

stepHasDependencyFailure(s) ==
  \E d \in dependsOn[s] :
    status[d] \in {FAILURE, PARTIAL_SUCCESS_DUE_TO_DEPENDENCY_FAILURE}

\* variant: the start states are ignored
isStepEnabledAlways(s) == TRUE

isStepEnabled(s) == ~stepStartStates[s].disabled

isStepRunnable(s) ==
  /\ status[s] = PENDING
  /\ dependenciesTerminated(s)

\* the guards of the scheduler's steps
\* variant: the cancellation signal is not looked at
canStartStepIgnoresSignal(s) ==
  /\ phase = "collect"
  /\ isStepRunnable(s)
  /\ isStepEnabled(s)
  /\ Cardinality(inFlight) < Concurrency

canStartStep(s) ==
  /\ phase = "collect"
  /\ ~signal
  /\ isStepRunnable(s)
  /\ isStepEnabled(s)
  /\ Cardinality(inFlight) < Concurrency

canCompleteDisabledStep(s) ==
  /\ phase = "collect"
  /\ ~signal
  /\ isStepRunnable(s)
  /\ ~isStepEnabled(s)

\* after the cancellation signal a step that was not started is cancelled
canCancelStep(s) ==
  /\ phase = "collect"
  /\ signal
  /\ status[s] = PENDING

isHandlerRunning(s) == phase = "collect" /\ status[s] = RUNNING

allStepsTerminated ==
  phase = "collect" /\ \A s \in Steps : status[s] \in TerminalStatuses

\* variant: the hook does not wait for the steps
canRunAfterExecutionEarly ==
  /\ phase = "collect"
  /\ options.afterExecution
  /\ afterExecution.calls = 0

\* the afterExecution hook of the invocation config is due
canRunAfterExecution ==
  /\ allStepsTerminated
  /\ options.afterExecution
  /\ afterExecution.calls = 0

canFinish ==
  /\ allStepsTerminated
  /\ options.afterExecution => afterExecution.calls > 0

\* something is left to do: a validation step, a step to start or complete,
\* a handler in flight, or the summary
hasWork ==
  \/ phase \in {"start", "validate", "startStates", "startStatesPending"}
  \/ \E s \in Steps : canStartStep(s) \/ canCompleteDisabledStep(s) \/ isHandlerRunning(s)
  \/ \E s \in Steps : canCancelStep(s)
  \/ canRunAfterExecution
  \/ canFinish

\* the dependsOn relations of a run: every relation in which a step depends
\* on earlier steps only, and those in which the first step also depends on
\* the last one, which closes a cycle of two or of three steps in some of them
DependencyGraphs ==
  { d \in [Steps -> SUBSET Steps] :
      /\ \A s \in Steps \ {1} : d[s] \subseteq 1..(s - 1)
      /\ d[1] \in {{}, {Len(integrationSteps)}} }

\* the sets of steps a getStepStartStates result may leave out
MissingStartStates == {{}} \cup { {s} : s \in Steps } \cup {Steps}

RECURSIVE dependenciesOf(_, _)
\* every step reached from the steps of `from` along dependsOn
dependenciesOf(from, seen) ==
  LET next == (UNION { dependsOn[s] : s \in from }) \ seen
  IN IF next = {} THEN seen ELSE dependenciesOf(next, seen \cup next)

\* variant: only two steps that depend on each other are seen as a cycle
hasMutualDependency ==
  \E s \in Steps : \E d \in dependsOn[s] : s \in dependsOn[d]

\* the dependency graph cannot be ordered: a step depends on itself,
\* directly or through other steps
hasCyclicDependency == \E s \in Steps : s \in dependenciesOf({s}, {})

\* variant: a missing entry is taken as an enabled step
startStatesCompleteAlways == TRUE

\* the result of getStepStartStates has an entry for every step
startStatesComplete == startStatesMissing = {}

\* what the validation phase settles once the start states are known
startStatesError ==
  IF ~startStatesComplete THEN "Start states not found"
  ELSE IF hasCyclicDependency THEN "CYCLIC_DEPENDENCY"
  ELSE "none"

phaseAfterStartStates == IF startStatesError = "none" THEN "collect" ELSE "done"

outcomeAfterStartStates ==
  IF startStatesError = "none" THEN outcome
  ELSE [outcome EXCEPT !.state = "rejected", !.error = startStatesError]

\* no uploader function was entered
NoPost == [batch |-> 0, type |-> "none", data |-> << >>]
NoRequests == [initiate |-> 0, uploaded |-> 0, finalize |-> 0, abort |-> 0, job |-> "none",
               finalizeBody |-> << >>, abortReason |-> "none"]
NoResponse == [code |-> "none", status |-> 0, body |-> "none"]
NoError == [code |-> "none", fatal |-> FALSE, message |-> "none", cause |-> NoResponse]
NoFailure == [batch |-> 0, err |-> NoResponse, sent |-> << >>, attemptsRemaining |-> 0,
              shrunk |-> FALSE, warned |-> FALSE, threw |-> NoError]

NoEvents == [enqueued |-> 0, published |-> 0,
             settle |-> [state |-> "pending", error |-> NoError]]
NoPick == [entity |-> 0, entry |-> 0, item |-> 0, size |-> 0]
NoShrink == [pc |-> "idle", input |-> << >>, data |-> << >>, maxSize |-> 0, totalSize |-> 0,
             itemsRemoved |-> 0, picked |-> NoPick]
NoOptions == [locally |-> FALSE, enableSchemaValidation |-> FALSE, afterExecution |-> FALSE]
NoMarker == [atStart |-> "undefined", marker |-> "undefined"]
NoCall == [pc |-> "idle", _class |-> "none", from |-> << >>, to |-> << >>, _type |-> << >>]

uploaderIdle ==
  /\ entry = "none"
  /\ files = << >>
  /\ uploadBatchSize = 0
  /\ partialDatasets = << >>
  /\ faultsLeft = 0
  /\ pc = "idle"
  /\ cursor = [file |-> 0, type |-> "none"]
  /\ batches = << >>
  /\ api = NoRequests
  /\ lastPost = NoPost
  /\ lastFailure = NoFailure
  /\ caught = NoError
  /\ logged = << >>
  /\ result = [state |-> "pending", error |-> NoError]
  /\ eventQueue = NoEvents
  /\ shrinking = NoShrink

\* no integration is being executed
schedulerIdle ==
  /\ dependsOn = [s \in Steps |-> {}]
  /\ stepStartStates = [s \in Steps |-> [disabled |-> FALSE]]
  /\ startStatesMissing = {}
  /\ declarations = [s \in Steps |-> << >>]
  /\ phase = "idle"
  /\ status = [s \in Steps |-> PENDING]
  /\ invoked = [s \in Steps |-> 0]
  /\ adds = [s \in Steps |-> 0]
  /\ stepError = [s \in Steps |-> "none"]
  /\ encounteredTypes = [s \in Steps |-> << >>]
  /\ graphObjectStore = << >>
  /\ validationFailures = 0
  /\ outcome = [state |-> "pending", error |-> "none",
                integrationStepResults |-> << >>, types |-> << >>]
  /\ options = NoOptions
  /\ env = NoMarker
  /\ afterExecution = [calls |-> 0, threw |-> FALSE]
  /\ summaryJson = << >>
  /\ flushed = {}
  /\ signal = FALSE

Init ==
  /\ uploaderIdle
  /\ dependsOn \in DependencyGraphs
  /\ stepStartStates \in [Steps -> [disabled : BOOLEAN]]
  /\ startStatesMissing \in MissingStartStates
  /\ declarations \in [Steps -> StepDeclarations]
  /\ phase = "validate"
  /\ status = [s \in Steps |-> PENDING]
  /\ invoked = [s \in Steps |-> 0]
  /\ adds = [s \in Steps |-> 0]
  /\ stepError = [s \in Steps |-> "none"]
  /\ encounteredTypes = [s \in Steps |-> << >>]
  /\ graphObjectStore = << >>
  /\ validationFailures = 0
  /\ outcome = [state |-> "pending", error |-> "none",
                integrationStepResults |-> << >>, types |-> << >>]
  /\ options = NoOptions
  /\ env = NoMarker
  /\ afterExecution = [calls |-> 0, threw |-> FALSE]
  /\ summaryJson = << >>
  /\ flushed = {}
  /\ signal = FALSE
  /\ relationship = NoCall

\* variant: the rejection is logged and the run carries on
ValidateInvocationLogsOnly ==
  /\ phase = "validate"
  /\ \E ok \in BOOLEAN :
       /\ phase' = "startStates"
       /\ validationFailures' = IF ok THEN validationFailures ELSE validationFailures + 1
       /\ UNCHANGED outcome
  /\ UNCHANGED << uploader, signal, relationship, env, afterExecution, disk, config, status, invoked, adds, stepError, encounteredTypes, graphObjectStore >>

\* validateInvocation(context): a rejection is logged and re-thrown
ValidateInvocation ==
  /\ phase = "validate"
  /\ \E ok \in BOOLEAN :
       IF ok
       THEN /\ phase' = "startStates"
            /\ UNCHANGED << validationFailures, outcome >>
       ELSE /\ phase' = "done"
            /\ validationFailures' = validationFailures + 1
            /\ outcome' = [outcome EXCEPT !.state = "rejected", !.error = "validateInvocation"]
  /\ UNCHANGED << uploader, signal, relationship, env, afterExecution, disk, config, status, invoked, adds, stepError, encounteredTypes, graphObjectStore >>

\* getStepStartStates(context) returns the start states, or a promise of them
GetStepStartStates ==
  /\ phase = "startStates"
  /\ \E async \in BOOLEAN :
       IF async
       THEN phase' = "startStatesPending" /\ UNCHANGED outcome
       ELSE phase' = phaseAfterStartStates /\ outcome' = outcomeAfterStartStates
  /\ UNCHANGED << uploader, signal, relationship, env, afterExecution, disk, config, status, invoked, adds, stepError, encounteredTypes,
                  graphObjectStore, validationFailures >>

\* the promise returned by an asynchronous getStepStartStates resolves
ResolveStepStartStates ==
  /\ phase = "startStatesPending"
  /\ phase' = phaseAfterStartStates
  /\ outcome' = outcomeAfterStartStates
  /\ UNCHANGED << uploader, signal, relationship, env, afterExecution, disk, config, status, invoked, adds, stepError, encounteredTypes,
                  graphObjectStore, validationFailures >>

\* an enabled runnable step is handed to its executionHandler
StartStep(s) ==
  /\ canStartStep(s)
  /\ status' = [status EXCEPT ![s] = RUNNING]
  /\ invoked' = [invoked EXCEPT ![s] = @ + 1]
  /\ UNCHANGED << uploader, signal, relationship, env, afterExecution, disk, config, phase, adds, stepError, encounteredTypes, graphObjectStore,
                  validationFailures, outcome >>

\* a disabled runnable step completes at once, its handler is not called
CompleteDisabledStep(s) ==
  /\ canCompleteDisabledStep(s)
  /\ status' = [status EXCEPT ![s] = DISABLED]
  /\ UNCHANGED << uploader, signal, relationship, env, afterExecution, disk, config, phase, invoked, adds, stepError, encounteredTypes,
                  graphObjectStore, validationFailures, outcome >>

\* jobState.addEntity / jobState.addEntities called by the handler of step s
AddEntities(s, batch) ==
  /\ isHandlerRunning(s)
  /\ adds[s] < MaxAdds
  /\ LET r == addAll([store |-> graphObjectStore, types |-> encounteredTypes[s],
                      duplicate |-> FALSE], s, batch)
     IN /\ graphObjectStore' = r.store
        /\ encounteredTypes' = [encounteredTypes EXCEPT ![s] = r.types]
        /\ IF r.duplicate
           THEN /\ stepError' = [stepError EXCEPT ![s] = "duplicate"]
                /\ status' = [status EXCEPT ![s] = FAILURE]
                /\ flushed' = flush(s, r.store)
           ELSE UNCHANGED << stepError, status, flushed >>
  /\ adds' = [adds EXCEPT ![s] = @ + 1]
  /\ UNCHANGED << uploader, signal, relationship, env, afterExecution, summaryJson, config, phase, invoked, validationFailures, outcome >>

\* the handler of step s resolves
HandlerReturns(s) ==
  /\ isHandlerRunning(s)
  /\ status' = [status EXCEPT ![s] =
                  IF stepHasDependencyFailure(s)
                  THEN PARTIAL_SUCCESS_DUE_TO_DEPENDENCY_FAILURE
                  ELSE SUCCESS]
  /\ flushed' = flush(s, graphObjectStore)
  /\ UNCHANGED << uploader, signal, relationship, env, afterExecution, summaryJson, config, phase, invoked, adds, stepError, encounteredTypes,
                  graphObjectStore, validationFailures, outcome >>

\* variant: the rejection of the handler escapes the scheduler
HandlerThrowsPropagates(s) ==
  /\ isHandlerRunning(s)
  /\ stepError' = [stepError EXCEPT ![s] = "handler"]
  /\ phase' = "done"
  /\ outcome' = [outcome EXCEPT !.state = "rejected"]
  /\ UNCHANGED << uploader, signal, relationship, env, afterExecution, disk, config, status, invoked, adds, encounteredTypes, graphObjectStore,
                  validationFailures >>

\* the handler of step s throws or rejects
HandlerThrows(s) ==
  /\ isHandlerRunning(s)
  /\ status' = [status EXCEPT ![s] = FAILURE]
  /\ stepError' = [stepError EXCEPT ![s] = "handler"]
  /\ flushed' = flush(s, graphObjectStore)
  /\ UNCHANGED << uploader, signal, relationship, env, afterExecution, summaryJson, config, phase, invoked, adds, encounteredTypes, graphObjectStore,
                  validationFailures, outcome >>

\* every step has a result: build the summary and resolve
Finish ==
  /\ canFinish
  /\ LET results == [i \in 1..Len(integrationSteps) |-> stepResult(integrationSteps[i])]
         types == determinePartialDatasets(results)
     IN /\ summaryJson' = stringifySummary(results, types)
        /\ outcome' = [ state |-> "resolved",
                        error |-> "none",
                        integrationStepResults |-> results,
                        types |-> types ]
  /\ phase' = "done"
  /\ UNCHANGED << uploader, signal, relationship, env, afterExecution, flushed, config, status, invoked, adds, stepError,
                  encounteredTypes, graphObjectStore, validationFailures >>

Next ==
  \/ ValidateInvocation
  \/ GetStepStartStates
  \/ ResolveStepStartStates
  \/ \E s \in Steps : StartStep(s)
  \/ \E s \in Steps : CompleteDisabledStep(s)
  \/ \E s \in Steps : \E batch \in Batches : AddEntities(s, batch)
  \/ \E s \in Steps : HandlerReturns(s)
  \/ \E s \in Steps : HandlerThrows(s)
  \/ Finish

Spec == Init /\ [][Next]_vars

TypeOK ==
  /\ phase \in {"start", "validate", "startStates", "startStatesPending", "collect", "done"}
  /\ \A s \in Steps : status[s] \in TerminalStatuses \cup {PENDING, RUNNING}

\* ------------------------------------------------- the run as a whole
\* variant: the marker is set whatever the options say
ExecuteIntegrationInstanceAlwaysValidates ==
  /\ phase = "start"
  /\ phase' = "validate"
  /\ env' = [atStart |-> env.marker, marker |-> "true"]
  /\ UNCHANGED << uploader, signal, relationship, afterExecution, disk, config, status, invoked, adds, stepError,
                  encounteredTypes, graphObjectStore, validationFailures, outcome >>

\* executeIntegrationInstance / executeIntegrationLocally is entered:
\* executeIntegrationLocally passes enableSchemaValidation: true, and the
\* option sets process.env.ENABLE_GRAPH_OBJECT_SCHEMA_VALIDATION
ExecuteIntegrationInstance ==
  /\ phase = "start"
  /\ phase' = "validate"
  /\ env' = [atStart |-> env.marker,
             marker |-> IF options.locally \/ options.enableSchemaValidation
                        THEN "true" ELSE env.marker]
  /\ UNCHANGED << uploader, signal, relationship, afterExecution, disk, config, status, invoked, adds, stepError,
                  encounteredTypes, graphObjectStore, validationFailures, outcome >>

\* the cancellation signal is given while the run is under way
Cancel ==
  /\ phase \in {"validate", "startStates", "startStatesPending", "collect"}
  /\ ~signal
  /\ signal' = TRUE
  /\ UNCHANGED << uploader, scheduler, relationship >>

\* after the signal a step that was not started is marked CANCELLED
CancelStep(s) ==
  /\ canCancelStep(s)
  /\ status' = [status EXCEPT ![s] = CANCELLED]
  /\ UNCHANGED << uploader, signal, relationship, env, afterExecution, disk, config, phase, invoked, adds, stepError,
                  encounteredTypes, graphObjectStore, validationFailures, outcome >>

\* the buffer of a running step passes the flush threshold
Flush(s) ==
  /\ isHandlerRunning(s)
  /\ flush(s, graphObjectStore) # flushed
  /\ flushed' = flush(s, graphObjectStore)
  /\ UNCHANGED << uploader, signal, relationship, env, afterExecution, summaryJson, config, phase, status, invoked, adds,
                  stepError, encounteredTypes, graphObjectStore, validationFailures, outcome >>

\* invocationConfig.afterExecution(context) is called; what it throws is
\* logged
AfterExecution ==
  /\ canRunAfterExecution
  /\ \E threw \in BOOLEAN :
       afterExecution' = [calls |-> afterExecution.calls + 1, threw |-> threw]
  /\ UNCHANGED << uploader, signal, relationship, env, disk, config, phase, status, invoked, adds, stepError,
                  encounteredTypes, graphObjectStore, validationFailures, outcome >>

\* the dependsOn relations of the runs below: a chain, a fork and a join
RunGraphs ==
  { [s \in Steps |-> IF s = 1 THEN {} ELSE {s - 1}],
    [s \in Steps |-> IF s = 1 THEN {} ELSE {1}],
    [s \in Steps |-> IF s = 3 THEN {1, 2} ELSE {}] }

\* how the runs below are entered: executeIntegrationInstance with no
\* option, executeIntegrationLocally, and executeIntegrationInstance with an
\* afterExecution hook, with and without enableSchemaValidation
RunOptions ==
  { NoOptions,
    [NoOptions EXCEPT !.locally = TRUE],
    [NoOptions EXCEPT !.afterExecution = TRUE],
    [NoOptions EXCEPT !.enableSchemaValidation = TRUE, !.afterExecution = TRUE] }

\* the values of the marker a run may find
Markers == {"undefined", "true"}

RunInit ==
  /\ uploaderIdle
  /\ dependsOn \in RunGraphs
  /\ stepStartStates \in { [s \in Steps |-> [disabled |-> s \in D]] : D \in {{}, {2}} }
  /\ startStatesMissing = {}
  /\ declarations = [s \in Steps |-> IF s = 2
                        THEN << [_type |-> "test_b", partial |-> TRUE],
                                [_type |-> "test_c", partial |-> FALSE] >>
                        ELSE << [_type |-> "test_a", partial |-> FALSE] >>]
  /\ phase = "start"
  /\ status = [s \in Steps |-> PENDING]
  /\ invoked = [s \in Steps |-> 0]
  /\ adds = [s \in Steps |-> 0]
  /\ stepError = [s \in Steps |-> "none"]
  /\ encounteredTypes = [s \in Steps |-> << >>]
  /\ graphObjectStore = << >>
  /\ validationFailures = 0
  /\ outcome = [state |-> "pending", error |-> "none",
                integrationStepResults |-> << >>, types |-> << >>]
  /\ options \in RunOptions
  /\ \E marker \in Markers : env = [atStart |-> marker, marker |-> marker]
  /\ afterExecution = [calls |-> 0, threw |-> FALSE]
  /\ summaryJson = << >>
  /\ flushed = {}
  /\ signal = FALSE
  /\ relationship = NoCall

RunNext ==
  \/ ExecuteIntegrationInstance
  \/ Next
  \/ Cancel
  \/ \E s \in Steps : CancelStep(s)
  \/ \E s \in Steps : Flush(s)
  \/ AfterExecution

RunSpec == RunInit /\ [][RunNext]_vars

\* =============================================================== uploader
UPLOAD_BATCH_SIZE == 250
UPLOAD_CONCURRENCY == 6
UPLOAD_SIZE_MAX == 6275072
maxAttempts == 5
\* Buffer.byteLength("'TRUNCATED'")
sizeOfTruncated == 11

\* ---------------------------------------------------------- graph objects
\* A graph object is [_key, size, _rawData]: size is the length of its
\* serialized form without its _rawData entries, _rawData a sequence of
\* entries [rawData], rawData a sequence of fields [len, truncated, truthy],
\* len the length of the field's serialized value, truthy whether the value
\* passes a JavaScript condition (null, 0, '' and false do not).
TRUNCATED == [len |-> sizeOfTruncated, truncated |-> TRUE, truthy |-> TRUE]

RECURSIVE sumLen(_)
sumLen(fields) ==
  IF fields = << >> THEN 0 ELSE Head(fields).len + sumLen(Tail(fields))

\* JSON.stringify(entry).length: the braces and the fields
entryLength(e) == 2 + sumLen(e.rawData)

RECURSIVE sumEntries(_)
sumEntries(entries) ==
  IF entries = << >> THEN 0 ELSE entryLength(Head(entries)) + sumEntries(Tail(entries))

\* JSON.stringify(entity).length
entityLength(o) == o.size + sumEntries(o._rawData)

RECURSIVE sumEntities(_)
sumEntities(data) ==
  IF data = << >> THEN 0 ELSE entityLength(Head(data)) + sumEntities(Tail(data))

\* Buffer.byteLength(JSON.stringify(data)): the brackets and the items
byteLength(data) == 2 + sumEntities(data)

\* the index a `for ... in` loop with `if (length > largest)` ends on: the
\* first index of the largest length, 0 (the key '') when no length is
\* above zero
RECURSIVE largestKey(_, _, _, _)
largestKey(lengths, i, bestKey, bestSize) ==
  IF i > Len(lengths) THEN bestKey
  ELSE IF lengths[i] > bestSize
       THEN largestKey(lengths, i + 1, i, lengths[i])
       ELSE largestKey(lengths, i + 1, bestKey, bestSize)

\* ---------------------------------------------------------- shrinkRawData
\* iterations of one shrinkRawData call that are followed
MaxTruncations == 6

\* the length the scan of the rawData fields gives a field: a falsy value
\* counts as 0
itemLength(f) == IF f.truthy THEN f.len ELSE 0

\* the three scans of an iteration: the largest entity of the batch, the
\* largest entry of its _rawData, the largest field of that entry's rawData
largestEntityKey(data) ==
  largestKey([i \in 1..Len(data) |-> entityLength(data[i])], 1, 0, 0)

largestRawDataEntryKey(entries) ==
  largestKey([i \in 1..Len(entries) |-> entryLength(entries[i])], 1, 0, 0)

largestItemKey(fields) ==
  largestKey([i \in 1..Len(fields) |-> itemLength(fields[i])], 1, 0, 0)

largestItemSize(fields, item) == IF item = 0 THEN 0 ELSE itemLength(fields[item])

\* rawData[largestItemKey] = 'TRUNCATED': the field is overwritten, or
\* created under the key '' when the scan picked none
overwrite(fields, item) ==
  IF item = 0 THEN Append(fields, TRUNCATED) ELSE [fields EXCEPT ![item] = TRUNCATED]

\* variant: the field is left as it is
truncateKeepsField(data, totalSize, itemsRemoved, entityKey, entryKey, itemKey) ==
  [ outcome |-> "truncated",
    data |-> data,
    totalSize |-> totalSize - largestItemSize(data[entityKey]._rawData[entryKey].rawData, itemKey)
                    + sizeOfTruncated,
    itemsRemoved |-> itemsRemoved + 1,
    picked |-> [entity |-> entityKey, entry |-> entryKey, item |-> itemKey,
                size |-> largestItemSize(data[entityKey]._rawData[entryKey].rawData, itemKey)] ]

\* the end of an iteration: the picked field is overwritten, itemsRemoved
\* counted up and the tracked size adjusted by what the scan measured
truncate(data, totalSize, itemsRemoved, entityKey, entryKey, itemKey) ==
  [ outcome |-> "truncated",
    data |-> [data EXCEPT ![entityKey]._rawData[entryKey].rawData = overwrite(@, itemKey)],
    totalSize |-> totalSize - largestItemSize(data[entityKey]._rawData[entryKey].rawData, itemKey)
                    + sizeOfTruncated,
    itemsRemoved |-> itemsRemoved + 1,
    picked |-> [entity |-> entityKey, entry |-> entryKey, item |-> itemKey,
                size |-> largestItemSize(data[entityKey]._rawData[entryKey].rawData, itemKey)] ]

\* an iteration once the largest entity and its largest entry are known
shrinkEntry(data, totalSize, itemsRemoved, entityKey, entryKey) ==
  truncate(data, totalSize, itemsRemoved, entityKey, entryKey,
           largestItemKey(data[entityKey]._rawData[entryKey].rawData))

\* an iteration once the largest entity is known: a TypeError when it has no
\* _rawData entry to read
shrinkEntity(data, totalSize, itemsRemoved, entityKey) ==
  IF entityKey = 0 \/ data[entityKey]._rawData = << >>
  THEN [outcome |-> "TypeError", data |-> data, totalSize |-> totalSize,
        itemsRemoved |-> itemsRemoved, picked |-> [NoPick EXCEPT !.entity = entityKey]]
  ELSE shrinkEntry(data, totalSize, itemsRemoved, entityKey,
                   largestRawDataEntryKey(data[entityKey]._rawData))

\* one iteration of the loop of shrinkRawData on data, with the tracked
\* totalSize and itemsRemoved
shrinkIteration(data, totalSize, itemsRemoved) ==
  shrinkEntity(data, totalSize, itemsRemoved, largestEntityKey(data))

\* The loop of shrinkRawData. It ends "returned" once the tracked size is
\* within maxSize, "TypeError" when an iteration throws, and "diverges" when
\* the field an iteration picks is no longer than the marker: the same field
\* is picked again ever after, the tracked size never falls and the loop
\* never ends.
RECURSIVE shrinkLoop(_, _, _, _)
shrinkNext(step, maxSize) ==
  IF step.outcome = "TypeError"
  THEN [outcome |-> "TypeError", data |-> step.data, totalSize |-> step.totalSize,
        itemsRemoved |-> step.itemsRemoved]
  ELSE IF step.picked.size <= sizeOfTruncated
       THEN [outcome |-> "diverges", data |-> step.data, totalSize |-> step.totalSize,
             itemsRemoved |-> step.itemsRemoved]
       ELSE shrinkLoop(step.data, step.totalSize, step.itemsRemoved, maxSize)

shrinkLoop(data, totalSize, itemsRemoved, maxSize) ==
  IF totalSize <= maxSize
  THEN [outcome |-> "returned", data |-> data, totalSize |-> totalSize,
        itemsRemoved |-> itemsRemoved]
  ELSE shrinkNext(shrinkIteration(data, totalSize, itemsRemoved), maxSize)

shrinkRawData(data, maxSize) == shrinkLoop(data, byteLength(data), 0, maxSize)

\* ------------------------------------------------------------------ chunk
\* lodash chunk(array, size): consecutive slices of `size` items, the last
\* one holding what is left
RECURSIVE chunk(_, _)
chunk(array, size) ==
  IF array = << >> \/ size < 1 THEN << >>
  ELSE IF Len(array) <= size THEN << array >>
  ELSE << SubSeq(array, 1, size) >> \o chunk(SubSeq(array, size + 1, Len(array)), size)

\* ------------------------------------------------------- uploadDataChunk
\* what a failed request carries: err.code, err.response.status (0 when
\* there is no response) and err.response.data.error.code
PostErrors ==
  { e \in [ code : {"none", "RequestEntityTooLargeException", "CredentialsError"},
            status : {0, 413, 500},
            body : {"none", "JOB_NOT_AWAITING_UPLOADS"} ] :
      e.body # "none" => e.status # 0 }

\* the failures enumerated when several batches are in flight: a transient
\* failure and a job that has ended
TransientError == [code |-> "none", status |-> 500, body |-> "none"]
JobEndedError == [code |-> "none", status |-> 500, body |-> "JOB_NOT_AWAITING_UPLOADS"]

requestError(err) ==
  [code |-> err.code, fatal |-> FALSE, message |-> "Request failed", cause |-> err]

isRequestUploadTooLargeError(err) ==
  err.code = "RequestEntityTooLargeException" \/ err.status = 413

getSystemErrorResponseData(err) == err.body

UploadAfterJobEnded(err) ==
  [code |-> "INTEGRATION_UPLOAD_AFTER_JOB_ENDED", fatal |-> TRUE,
   message |-> "Failed to upload integration data because job has already ended",
   cause |-> err]

ShrinkTypeError(err) ==
  [code |-> "TypeError", fatal |-> FALSE,
   message |-> "Cannot read properties of undefined", cause |-> err]

\* variant: an ended job is retried like any other failure
handleUploadDataChunkErrorRetriesEndedJob(err, attemptsRemaining, batch) ==
  LET tooLarge == isRequestUploadTooLargeError(err)
      shrink == shrinkRawData(batch, UPLOAD_SIZE_MAX)
      threw == IF tooLarge /\ shrink.outcome = "TypeError" THEN ShrinkTypeError(err)
               ELSE NoError
  IN [ batch |-> IF tooLarge THEN shrink.data ELSE batch,
       shrunk |-> tooLarge,
       diverges |-> tooLarge /\ shrink.outcome = "diverges",
       threw |-> threw,
       warned |-> /\ threw = NoError
                  /\ ~(tooLarge /\ shrink.outcome = "diverges")
                  /\ attemptsRemaining > 0
                  /\ err.code # "CredentialsError" ]

\* variant: the batch is left as it is
handleUploadDataChunkErrorNoShrink(err, attemptsRemaining, batch) ==
  LET tooLarge == isRequestUploadTooLargeError(err)
      threw == IF ~tooLarge /\ getSystemErrorResponseData(err) = "JOB_NOT_AWAITING_UPLOADS"
               THEN UploadAfterJobEnded(err)
               ELSE NoError
  IN [ batch |-> batch,
       shrunk |-> FALSE,
       diverges |-> FALSE,
       threw |-> threw,
       warned |-> threw = NoError /\ attemptsRemaining > 0 /\ err.code # "CredentialsError" ]

\* variant: the warning is an else branch, a too-large error logs none
handleUploadDataChunkErrorWarnsOtherwise(err, attemptsRemaining, batch) ==
  LET tooLarge == isRequestUploadTooLargeError(err)
      shrink == shrinkRawData(batch, UPLOAD_SIZE_MAX)
      threw == IF tooLarge
               THEN IF shrink.outcome = "TypeError" THEN ShrinkTypeError(err) ELSE NoError
               ELSE IF getSystemErrorResponseData(err) = "JOB_NOT_AWAITING_UPLOADS"
                    THEN UploadAfterJobEnded(err)
                    ELSE NoError
  IN [ batch |-> IF tooLarge THEN shrink.data ELSE batch,
       shrunk |-> tooLarge,
       diverges |-> tooLarge /\ shrink.outcome = "diverges",
       threw |-> threw,
       warned |-> /\ threw = NoError
                  /\ ~tooLarge
                  /\ attemptsRemaining > 0
                  /\ err.code # "CredentialsError" ]

\* handleUploadDataChunkError: what it leaves of the batch, whether it
\* threw, never returned, or logged the '(will retry)' warning
handleUploadDataChunkError(err, attemptsRemaining, batch) ==
  LET tooLarge == isRequestUploadTooLargeError(err)
      shrink == shrinkRawData(batch, UPLOAD_SIZE_MAX)
      threw == IF tooLarge
               THEN IF shrink.outcome = "TypeError" THEN ShrinkTypeError(err) ELSE NoError
               ELSE IF getSystemErrorResponseData(err) = "JOB_NOT_AWAITING_UPLOADS"
                    THEN UploadAfterJobEnded(err)
                    ELSE NoError
  IN [ batch |-> IF tooLarge THEN shrink.data ELSE batch,
       shrunk |-> tooLarge,
       diverges |-> tooLarge /\ shrink.outcome = "diverges",
       threw |-> threw,
       warned |-> /\ threw = NoError
                  /\ ~(tooLarge /\ shrink.outcome = "diverges")
                  /\ attemptsRemaining > 0
                  /\ err.code # "CredentialsError" ]

\* variant: an attempt is made while the count is not below zero
retryExhaustedBelowZero(attemptsRemaining) == attemptsRemaining < 0

\* retry's onError: `context.attemptsRemaining === 0` ends the retries
retryExhausted(attemptsRemaining) == attemptsRemaining = 0

\* ------------------------------------------------------------ uploadData
setup == << entry, files, uploadBatchSize, partialDatasets >>

Min(S) == CHOOSE x \in S : \A y \in S : x <= y
Max(S) == CHOOSE x \in S : \A y \in S : x >= y

\* uploadBatchSize || UPLOAD_BATCH_SIZE
batchSize == IF uploadBatchSize # 0 THEN uploadBatchSize ELSE UPLOAD_BATCH_SIZE

\* variant: the slices overlap by one item
newBatchesOverlapping(data) ==
  LET batch(first) == [ data |-> SubSeq(data, first, Min({Len(data), first + batchSize})),
                        state |-> "queued", attemptsRemaining |-> maxAttempts,
                        attemptNum |-> 0 ]
      count == (Len(data) + batchSize - 1) \div batchSize
  IN [i \in 1..count |-> batch((i - 1) * batchSize + 1)]

\* the batches uploadData hands to pMap, none of them started
newBatches(data) ==
  LET batch(c) == [ data |-> c, state |-> "queued", attemptsRemaining |-> maxAttempts,
                    attemptNum |-> 0 ]
      chunks == chunk(data, batchSize)
  IN [i \in 1..Len(chunks) |-> batch(chunks[i])]

inFlightBatches(bs) == { i \in 1..Len(bs) : bs[i].state \in {"posting", "backoff"} }
queuedBatches(bs) == { i \in 1..Len(bs) : bs[i].state = "queued" }
allResolved(bs) == \A i \in 1..Len(bs) : bs[i].state = "resolved"

\* retry's makeAttempt: one attempt is used up and the request is sent
makeAttempt(b) ==
  [b EXCEPT !.state = "posting",
            !.attemptsRemaining = IF @ > 0 THEN @ - 1 ELSE @]

\* the mapper uploadData gives pMap: `if (batch.length) await uploadDataChunk`
mapper(b) ==
  IF Len(b.data) # 0 THEN makeAttempt(b) ELSE [b EXCEPT !.state = "resolved"]

\* variant: pMap without a concurrency option
pMapHasRoomUnlimited(bs) == TRUE

\* pMap starts another mapper while fewer than `concurrency` are pending
pMapHasRoom(bs) == Cardinality(inFlightBatches(bs)) < UPLOAD_CONCURRENCY

RECURSIVE pMapNext(_)
pMapNext(bs) ==
  IF queuedBatches(bs) = {} \/ ~pMapHasRoom(bs) THEN bs
  ELSE pMapNext([bs EXCEPT ![Min(queuedBatches(bs))] = mapper(@)])

\* the latest request among those a step has sent
latestPost(type, before, after) ==
  LET sent == { i \in 1..Len(after) :
                  /\ after[i].state = "posting"
                  /\ (i > Len(before) \/ before[i].state # "posting") }
  IN IF sent = {} THEN lastPost
     ELSE [batch |-> Max(sent), type |-> type, data |-> after[Max(sent)].data]

\* the array uploadGraphObjectData uploads after `done`, "none" when the
\* file has nothing left
nextType(f, done) ==
  IF done = "start" /\ files[f].entities # << >> THEN "entities"
  ELSE IF done \in {"start", "entities"} /\ files[f].relationships # << >> THEN "relationships"
  ELSE "none"

dataOf(f, type) == IF type = "entities" THEN files[f].entities ELSE files[f].relationships

\* synchronizationApiError(err, errorMessage)
synchronizationApiError(err, errorMessage) ==
  [code |-> "SYNCHRONIZATION_API_ERROR", fatal |-> FALSE, message |-> errorMessage,
   cause |-> err.cause]

\* eventPublishingQueue.enqueue(event), called for every 'event' of the logger
enqueue(q) == [q EXCEPT !.enqueued = @ + 1]

\* every enqueued event has been published
queueIdle(q) == q.published = q.enqueued

\* variant: the function settles without waiting for the queue
FinallyNotAwaited(settled) ==
  /\ result' = settled
  /\ pc' = "done"
  /\ UNCHANGED eventQueue

\* the finally block of synchronizeCollectedData: what the try or the catch
\* block settled with is held back until eventPublishingQueue.onIdle()
Finally(settled) ==
  IF queueIdle(eventQueue)
  THEN /\ result' = settled
       /\ pc' = "done"
       /\ UNCHANGED eventQueue
  ELSE /\ eventQueue' = [eventQueue EXCEPT !.settle = settled]
       /\ pc' = "draining"
       /\ UNCHANGED result

\* the catch block of synchronizeCollectedData: the abort request is sent
Catch(err) ==
  /\ caught' = err
  /\ logged' = Append(logged, [err |-> err,
                                message |-> "Error occurred while synchronizing collected data"])
  /\ api' = [api EXCEPT !.abort = @ + 1, !.abortReason = err.message]
  /\ pc' = "aborting"
  /\ UNCHANGED result

\* the rejection of uploadDataChunk reaches the caller of the entered function
Throw(err) ==
  IF entry = "synchronizeCollectedData"
  THEN Catch(synchronizationApiError(err, "Error uploading collected data"))
  ELSE /\ result' = [state |-> "rejected",
                     error |-> IF entry = "uploadDataChunk" THEN err
                               ELSE synchronizationApiError(err, "Error uploading collected data")]
       /\ pc' = "done"
       /\ UNCHANGED << caught, logged, api >>

\* the failed responses the service may give to a batch request
serviceErrors ==
  IF entry = "uploadDataChunk" THEN PostErrors ELSE {TransientError, JobEndedError}

\* uploadDataChunk({batch}) is called: the first attempt is made at once
UploadDataChunk ==
  /\ entry = "uploadDataChunk"
  /\ pc = "idle"
  /\ batches' = [batches EXCEPT ![1] = makeAttempt(@)]
  /\ lastPost' = latestPost(cursor.type, batches, batches')
  /\ pc' = "uploading"
  /\ UNCHANGED << scheduler, signal, relationship, eventQueue, shrinking, setup, faultsLeft, cursor, api, lastFailure, caught, logged, result >>

\* the next parsed graph file is handed to uploadGraphObjectData, which
\* starts the upload of its first non-empty array; after the last file
\* the iteration returns and uploadCollectedData logs
\* synchronizationUploadEnd, an event of the logger
ReadNextFile ==
  /\ pc = "iterating"
  /\ LET f == cursor.file + 1
     IN IF f > Len(files)
        THEN /\ IF entry = "synchronizeCollectedData"
                THEN /\ pc' = "readingSummary"
                     /\ eventQueue' = enqueue(eventQueue)
                     /\ UNCHANGED result
                ELSE /\ pc' = "done"
                     /\ result' = [state |-> "resolved", error |-> NoError]
                     /\ UNCHANGED eventQueue
             /\ UNCHANGED << cursor, batches, lastPost >>
        ELSE IF nextType(f, "start") = "none"
             THEN /\ cursor' = [file |-> f, type |-> "none"]
                  /\ UNCHANGED << pc, result, batches, lastPost, eventQueue >>
             ELSE /\ cursor' = [file |-> f, type |-> nextType(f, "start")]
                  /\ batches' = pMapNext(newBatches(dataOf(f, cursor'.type)))
                  /\ lastPost' = latestPost(cursor'.type, << >>, batches')
                  /\ pc' = "uploading"
                  /\ UNCHANGED << result, eventQueue >>
  /\ UNCHANGED << scheduler, signal, relationship, shrinking, setup, faultsLeft, api, lastFailure, caught, logged >>

\* the request of batch b is answered with success: uploadDataChunk
\* resolves, pMap starts the next batch, and when every batch of the call is
\* done uploadData returns and the next array of the file is uploaded
PostSucceeds(b) ==
  /\ pc # "hung"
  /\ b \in 1..Len(batches)
  /\ batches[b].state = "posting"
  /\ LET done == [batches EXCEPT ![b].state = "resolved"]
         next == pMapNext(done)
     IN IF pc # "uploading"
        THEN /\ batches' = done
             /\ UNCHANGED << pc, cursor, lastPost, result >>
        ELSE IF entry = "uploadDataChunk"
        THEN /\ batches' = done
             /\ pc' = "done"
             /\ result' = [state |-> "resolved", error |-> NoError]
             /\ UNCHANGED << cursor, lastPost >>
        ELSE IF ~allResolved(next)
        THEN /\ batches' = next
             /\ lastPost' = latestPost(cursor.type, done, next)
             /\ UNCHANGED << pc, cursor, result >>
        ELSE IF nextType(cursor.file, cursor.type) = "none"
        THEN /\ batches' = next
             /\ pc' = "iterating"
             /\ UNCHANGED << cursor, lastPost, result >>
        ELSE /\ cursor' = [cursor EXCEPT !.type = nextType(cursor.file, cursor.type)]
             /\ batches' = pMapNext(newBatches(dataOf(cursor.file, cursor'.type)))
             /\ lastPost' = latestPost(cursor'.type, << >>, batches')
             /\ UNCHANGED << pc, result >>
  /\ api' = [api EXCEPT !.uploaded = @ + Len(batches[b].data)]
  /\ UNCHANGED << scheduler, signal, relationship, eventQueue, shrinking, setup, faultsLeft, lastFailure, caught, logged >>

\* the request of batch b fails with err: handleUploadDataChunkError runs,
\* then retry's onError either gives up (the handler threw, or no attempt
\* remains) or sleeps before the next attempt. The first batch to give up
\* rejects pMap, and with it the call the caller is waiting for.
PostFails(b, err) ==
  /\ pc # "hung"
  /\ b \in 1..Len(batches)
  /\ batches[b].state = "posting"
  /\ faultsLeft > 0
  /\ faultsLeft' = faultsLeft - 1
  /\ LET handled == handleUploadDataChunkError(err, batches[b].attemptsRemaining,
                                                batches[b].data)
         givesUp == handled.threw # NoError \/ retryExhausted(batches[b].attemptsRemaining)
         error == IF handled.threw # NoError THEN handled.threw ELSE requestError(err)
     IN /\ lastFailure' = [ batch |-> b, err |-> err, sent |-> batches[b].data,
                            attemptsRemaining |-> batches[b].attemptsRemaining,
                            shrunk |-> handled.shrunk, warned |-> handled.warned,
                            threw |-> IF handled.diverges \/ ~givesUp THEN NoError ELSE error ]
        /\ IF handled.diverges
           THEN /\ pc' = "hung"
                /\ batches' = [batches EXCEPT ![b].data = handled.batch]
                /\ UNCHANGED << caught, logged, api, result >>
           ELSE IF givesUp
           THEN /\ batches' = [batches EXCEPT ![b].state = "rejected",
                                              ![b].data = handled.batch]
                /\ IF pc = "uploading" THEN Throw(error)
                   ELSE UNCHANGED << pc, caught, logged, api, result >>
           ELSE /\ batches' = [batches EXCEPT ![b].state = "backoff",
                                              ![b].data = handled.batch,
                                              ![b].attemptNum = @ + 1]
                /\ UNCHANGED << pc, caught, logged, api, result >>
  /\ UNCHANGED << scheduler, signal, relationship, eventQueue, shrinking, setup, cursor, lastPost >>

\* the delay of batch b has passed: the next attempt is made
Retry(b) ==
  /\ pc # "hung"
  /\ b \in 1..Len(batches)
  /\ batches[b].state = "backoff"
  /\ batches' = [batches EXCEPT ![b] = makeAttempt(@)]
  /\ lastPost' = [batch |-> b, type |-> cursor.type, data |-> batches'[b].data]
  /\ UNCHANGED << scheduler, signal, relationship, eventQueue, shrinking, setup, faultsLeft, pc, cursor, api, lastFailure, caught, logged, result >>

\* ---------------------------------------------- synchronizeCollectedData
\* variant: the upload starts without waiting for the job
InitiateSynchronizationNotAwaited ==
  /\ entry = "synchronizeCollectedData"
  /\ pc = "idle"
  /\ pc' = "iterating"
  /\ UNCHANGED api
  /\ UNCHANGED << scheduler, signal, relationship, eventQueue, shrinking, setup, faultsLeft, cursor, batches, lastPost, lastFailure,
                  caught, logged, result >>

\* initiateSynchronization: POST /persister/synchronization/jobs
InitiateSynchronization ==
  /\ entry = "synchronizeCollectedData"
  /\ pc = "idle"
  /\ pc' = "initiating"
  /\ api' = [api EXCEPT !.initiate = @ + 1]
  /\ UNCHANGED << scheduler, signal, relationship, eventQueue, shrinking, setup, faultsLeft, cursor, batches, lastPost, lastFailure,
                  caught, logged, result >>

\* variant: a failed initiate request lands in the catch block
InitiateRespondsInsideTry ==
  /\ pc = "initiating"
  /\ \E ok \in BOOLEAN :
       IF ok
       THEN /\ api' = [api EXCEPT !.job = "AWAITING_UPLOADS"]
            /\ pc' = "iterating"
            /\ eventQueue' = enqueue(eventQueue)
            /\ UNCHANGED << result, caught, logged >>
       ELSE /\ Catch(synchronizationApiError(requestError(TransientError),
                       "Error occurred while initiating synchronization job"))
            /\ UNCHANGED eventQueue
  /\ UNCHANGED << scheduler, signal, relationship, shrinking, setup, faultsLeft, cursor, batches, lastPost,
                  lastFailure >>

\* the initiate request is answered; a failure is thrown outside the try.
\* With the job created the event queue is attached to the logger and
\* uploadCollectedData logs synchronizationUploadStart, an event of the logger
InitiateResponds ==
  /\ pc = "initiating"
  /\ \E ok \in BOOLEAN :
       IF ok
       THEN /\ api' = [api EXCEPT !.job = "AWAITING_UPLOADS"]
            /\ pc' = "iterating"
            /\ eventQueue' = enqueue(eventQueue)
            /\ UNCHANGED result
       ELSE /\ pc' = "done"
            /\ result' = [state |-> "rejected",
                          error |-> synchronizationApiError(requestError(TransientError),
                                      "Error occurred while initiating synchronization job")]
            /\ UNCHANGED << api, eventQueue >>
  /\ UNCHANGED << scheduler, signal, relationship, shrinking, setup, faultsLeft, cursor, batches, lastPost,
                  lastFailure, caught, logged >>

\* getPartialDatasets reads summary.json, then finalizeSynchronization posts
\* {partialDatasets}; a summary that cannot be read lands in the catch block
ReadSummary ==
  /\ pc = "readingSummary"
  /\ \E ok \in BOOLEAN :
       IF ok
       THEN /\ api' = [api EXCEPT !.finalize = @ + 1, !.finalizeBody = partialDatasets]
            /\ pc' = "finalizing"
            /\ UNCHANGED << caught, logged, result >>
       ELSE Catch([code |-> "ENOENT", fatal |-> FALSE, message |-> "no such file",
                   cause |-> NoResponse])
  /\ UNCHANGED << scheduler, signal, relationship, eventQueue, shrinking, setup, faultsLeft, cursor, batches, lastPost, lastFailure >>

\* the finalize request is answered
FinalizeResponds ==
  /\ pc = "finalizing"
  /\ \E ok \in BOOLEAN :
       IF ok
       THEN /\ api' = [api EXCEPT !.job = "FINALIZED"]
            /\ Finally([state |-> "resolved", error |-> NoError])
            /\ UNCHANGED << caught, logged >>
       ELSE /\ Catch(synchronizationApiError(requestError(TransientError),
                       "Error occurred while finalizing synchronization job."))
            /\ UNCHANGED eventQueue
  /\ UNCHANGED << scheduler, signal, relationship, shrinking, setup, faultsLeft, cursor, batches, lastPost,
                  lastFailure >>

\* variant: the abort error is thrown instead of the caught one, always
AbortRespondsRaisesAbortError ==
  /\ pc = "aborting"
  /\ \E ok \in BOOLEAN :
       /\ api' = IF ok THEN [api EXCEPT !.job = "ABORTED"] ELSE api
       /\ Finally([state |-> "rejected",
                   error |-> synchronizationApiError(requestError(TransientError),
                               "Error occurred while aborting synchronization job")])
  /\ UNCHANGED << scheduler, signal, relationship, shrinking, setup, faultsLeft, cursor, batches, lastPost,
                  lastFailure, caught, logged >>

\* what abortSynchronization throws when its request fails
abortError ==
  synchronizationApiError(requestError(TransientError),
                          "Error occurred while aborting synchronization job")

\* variant: a failed abort is logged and the caught error is thrown
AbortRespondsRaisesCaught ==
  /\ pc = "aborting"
  /\ \E ok \in BOOLEAN :
       IF ok
       THEN /\ api' = [api EXCEPT !.job = "ABORTED"]
            /\ Finally([state |-> "rejected", error |-> caught])
            /\ UNCHANGED logged
       ELSE /\ logged' = Append(logged, [err |-> abortError,
                 message |-> "Error occurred while aborting synchronization job."])
            /\ Finally([state |-> "rejected", error |-> caught])
            /\ UNCHANGED api
  /\ UNCHANGED << scheduler, signal, relationship, shrinking, setup, faultsLeft, cursor, batches, lastPost,
                  lastFailure, caught >>

\* the abort request is answered: the caught error is thrown again, unless
\* the abort itself failed, in which case its error is logged and thrown
AbortResponds ==
  /\ pc = "aborting"
  /\ \E ok \in BOOLEAN :
       IF ok
       THEN /\ api' = [api EXCEPT !.job = "ABORTED"]
            /\ Finally([state |-> "rejected", error |-> caught])
            /\ UNCHANGED logged
       ELSE /\ logged' = Append(logged, [err |-> abortError,
                 message |-> "Error occurred while aborting synchronization job."])
            /\ Finally([state |-> "rejected", error |-> abortError])
            /\ UNCHANGED api
  /\ UNCHANGED << scheduler, signal, relationship, shrinking, setup, faultsLeft, cursor, batches, lastPost,
                  lastFailure, caught >>

\* the event queue has published one more event to the job's event log;
\* with the last one a pending onIdle() resolves and the function settles
PublishEvent ==
  /\ entry = "synchronizeCollectedData"
  /\ ~queueIdle(eventQueue)
  /\ eventQueue' = [eventQueue EXCEPT !.published = @ + 1]
  /\ IF pc = "draining" /\ queueIdle(eventQueue')
     THEN pc' = "done" /\ result' = eventQueue.settle
     ELSE UNCHANGED << pc, result >>
  /\ UNCHANGED << scheduler, signal, relationship, shrinking, setup, faultsLeft, cursor, batches, api,
                  lastPost, lastFailure, caught, logged >>

\* ----------------------------------------------- a call of shrinkRawData
\* shrinkRawData(data, logger, maxSize) is entered: the batch is measured
MeasureBatch ==
  /\ shrinking.pc = "called"
  /\ shrinking' = [shrinking EXCEPT !.pc = "looping",
                                    !.totalSize = byteLength(shrinking.data),
                                    !.itemsRemoved = 0]
  /\ UNCHANGED << scheduler, signal, relationship, eventQueue, setup, faultsLeft, pc, cursor, batches, api,
                  lastPost, lastFailure, caught, logged, result >>

\* while (totalSize > maxSize): one more iteration
ShrinkIteration ==
  /\ shrinking.pc = "looping"
  /\ shrinking.totalSize > shrinking.maxSize
  /\ shrinking.itemsRemoved < MaxTruncations
  /\ LET step == shrinkIteration(shrinking.data, shrinking.totalSize, shrinking.itemsRemoved)
     IN shrinking' = [shrinking EXCEPT
                        !.pc = IF step.outcome = "TypeError" THEN "TypeError" ELSE "looping",
                        !.data = step.data,
                        !.totalSize = step.totalSize,
                        !.itemsRemoved = step.itemsRemoved,
                        !.picked = step.picked]
  /\ UNCHANGED << scheduler, signal, relationship, eventQueue, setup, faultsLeft, pc, cursor, batches, api,
                  lastPost, lastFailure, caught, logged, result >>

\* the tracked size is within maxSize: the loop ends, the reduction is
\* logged and shrinkRawData returns
ShrinkReturns ==
  /\ shrinking.pc = "looping"
  /\ shrinking.totalSize <= shrinking.maxSize
  /\ shrinking' = [shrinking EXCEPT !.pc = "returned"]
  /\ UNCHANGED << scheduler, signal, relationship, eventQueue, setup, faultsLeft, pc, cursor, batches, api,
                  lastPost, lastFailure, caught, logged, result >>

\* ------------------------------------------------------- specifications
MaxItems == 7          \* graph objects in one array of a file
MaxFaults == 1         \* failed responses while several batches are in flight

field(n) == [len |-> n, truncated |-> FALSE, truthy |-> TRUE]
\* a field holding null, 0, '' or false
falsy(n) == [len |-> n, truncated |-> FALSE, truthy |-> FALSE]

\* a graph object without raw data
plain(k) == [_key |-> k, size |-> 100, _rawData |-> << >>]
objects(n) == [i \in 1..n |-> plain(i)]
file(n, m) == [entities |-> objects(n), relationships |-> objects(m)]

\* the shapes of a graph object of a batch given to uploadDataChunk: small
\* or too large for one request, without raw data, with a small raw data
\* field, or with two large ones
Shapes ==
  { [size |-> 100, _rawData |-> << >>],
    [size |-> 100, _rawData |-> << [rawData |-> << field(5) >>] >>],
    [size |-> 100, _rawData |-> << [rawData |-> << field(4000000), field(3000000) >>] >>],
    [size |-> 7000000, _rawData |-> << >>],
    [size |-> 7000000, _rawData |-> << [rawData |-> << field(5) >>] >>] }

keyed(shape, k) == [_key |-> k, size |-> shape.size, _rawData |-> shape._rawData]

Payloads ==
  { << keyed(s, 1) >> : s \in Shapes }
  \cup { << keyed(s, 1), keyed(r, 2) >> : s \in Shapes, r \in Shapes }

\* uploadDataChunk is called with one batch
ChunkInit ==
  /\ schedulerIdle
  /\ relationship = NoCall
  /\ entry = "uploadDataChunk"
  /\ files = << >>
  /\ uploadBatchSize = 0
  /\ partialDatasets = << >>
  /\ faultsLeft = maxAttempts
  /\ pc = "idle"
  /\ cursor \in [file : {0}, type : {"entities", "relationships"}]
  /\ \E payload \in Payloads :
       batches = << [ data |-> payload, state |-> "queued",
                      attemptsRemaining |-> maxAttempts, attemptNum |-> 0 ] >>
  /\ api = NoRequests
  /\ lastPost = NoPost
  /\ lastFailure = NoFailure
  /\ caught = NoError
  /\ logged = << >>
  /\ result = [state |-> "pending", error |-> NoError]
  /\ eventQueue = NoEvents
  /\ shrinking = NoShrink

ChunkNext ==
  \/ UploadDataChunk
  \/ \E b \in 1..Len(batches) : PostSucceeds(b)
  \/ \E b \in 1..Len(batches) : \E err \in serviceErrors : PostFails(b, err)
  \/ \E b \in 1..Len(batches) : Retry(b)

ChunkSpec == ChunkInit /\ [][ChunkNext]_vars

\* the files a caller hands to uploadGraphObjectData one after the other,
\* with the uploadBatchSize it passes
UploadInputs ==
  { [files |-> << file(n, m), file(1, 0) >>, uploadBatchSize |-> size] :
      n \in 0..MaxItems, m \in {0, 2}, size \in 1..3 }
  \cup { [files |-> << file(n, 0), file(0, 1) >>, uploadBatchSize |-> 0] :
           n \in {1, UPLOAD_BATCH_SIZE, UPLOAD_BATCH_SIZE + 1} }

UploadInit ==
  /\ schedulerIdle
  /\ relationship = NoCall
  /\ entry = "uploadGraphObjectData"
  /\ \E input \in UploadInputs :
       /\ files = input.files
       /\ uploadBatchSize = input.uploadBatchSize
  /\ partialDatasets = << >>
  /\ faultsLeft = MaxFaults
  /\ pc = "iterating"
  /\ cursor = [file |-> 0, type |-> "none"]
  /\ batches = << >>
  /\ api = NoRequests
  /\ lastPost = NoPost
  /\ lastFailure = NoFailure
  /\ caught = NoError
  /\ logged = << >>
  /\ result = [state |-> "pending", error |-> NoError]
  /\ eventQueue = NoEvents
  /\ shrinking = NoShrink

UploadNext ==
  \/ ReadNextFile
  \/ \E b \in 1..Len(batches) : PostSucceeds(b)
  \/ \E b \in 1..Len(batches) : \E err \in serviceErrors : PostFails(b, err)
  \/ \E b \in 1..Len(batches) : Retry(b)

UploadSpec == UploadInit /\ [][UploadNext]_vars

\* the graph files a run left on disk
SyncFiles ==
  { << >>,
    << file(1, 1) >>,
    << file(0, 0), file(UPLOAD_BATCH_SIZE + 1, 0) >>,
    << file(UPLOAD_BATCH_SIZE + 1, 1), file(1, 0) >> }

\* synchronizeCollectedData is called after a run
SyncInit ==
  /\ schedulerIdle
  /\ relationship = NoCall
  /\ entry = "synchronizeCollectedData"
  /\ files \in SyncFiles
  /\ uploadBatchSize = 0
  /\ partialDatasets \in {<< >>, << "test_a" >>}
  /\ faultsLeft = maxAttempts + 1
  /\ pc = "idle"
  /\ cursor = [file |-> 0, type |-> "none"]
  /\ batches = << >>
  /\ api = NoRequests
  /\ lastPost = NoPost
  /\ lastFailure = NoFailure
  /\ caught = NoError
  /\ logged = << >>
  /\ result = [state |-> "pending", error |-> NoError]
  /\ eventQueue = NoEvents
  /\ shrinking = NoShrink

SyncNext ==
  \/ InitiateSynchronization
  \/ InitiateResponds
  \/ ReadNextFile
  \/ \E b \in 1..Len(batches) : PostSucceeds(b)
  \/ \E b \in 1..Len(batches) : \E err \in serviceErrors : PostFails(b, err)
  \/ \E b \in 1..Len(batches) : Retry(b)
  \/ ReadSummary
  \/ FinalizeResponds
  \/ AbortResponds
  \/ PublishEvent

SyncSpec == SyncInit /\ [][SyncNext]_vars

\* the cancellation signal is given while a synchronization is under way
CancelSynchronization ==
  /\ entry = "synchronizeCollectedData"
  /\ pc # "done"
  /\ ~signal
  /\ signal' = TRUE
  /\ UNCHANGED << scheduler, uploader, relationship >>

CancelSyncNext ==
  \/ SyncNext
  \/ CancelSynchronization

\* synchronizeCollectedData with a cancellation signal arriving at any moment
CancelSyncSpec == SyncInit /\ [][CancelSyncNext]_vars

\* the shapes of a graph object of a batch given to shrinkRawData with a
\* small maxSize: without _rawData, with an empty rawData, with a field
\* shorter than the marker, with two longer fields, with two entries, with
\* a falsy field, and a long object without _rawData
ShrinkShapes ==
  { [size |-> 40, _rawData |-> << >>],
    [size |-> 40, _rawData |-> << [rawData |-> << >>] >>],
    [size |-> 40, _rawData |-> << [rawData |-> << field(5) >>] >>],
    [size |-> 40, _rawData |-> << [rawData |-> << field(30), field(20) >>] >>],
    [size |-> 40, _rawData |-> << [rawData |-> << field(20) >>],
                                  [rawData |-> << field(25), field(25) >>] >>],
    [size |-> 40, _rawData |-> << [rawData |-> << falsy(4), field(13) >>] >>],
    [size |-> 90, _rawData |-> << >>] }

ShrinkLimits == {50, 70, 100, 150}

ShrinkInputs ==
  { [data |-> payload, maxSize |-> UPLOAD_SIZE_MAX] : payload \in Payloads }
  \cup { [data |-> << keyed(s, 1) >>, maxSize |-> m] : s \in ShrinkShapes, m \in ShrinkLimits }
  \cup { [data |-> << keyed(s, 1), keyed(r, 2) >>, maxSize |-> m] :
           s \in ShrinkShapes, r \in ShrinkShapes, m \in ShrinkLimits }

\* shrinkRawData is called with a batch and a maxSize
ShrinkInit ==
  /\ schedulerIdle
  /\ relationship = NoCall
  /\ entry = "shrinkRawData"
  /\ files = << >>
  /\ uploadBatchSize = 0
  /\ partialDatasets = << >>
  /\ faultsLeft = 0
  /\ pc = "idle"
  /\ cursor = [file |-> 0, type |-> "none"]
  /\ batches = << >>
  /\ api = NoRequests
  /\ lastPost = NoPost
  /\ lastFailure = NoFailure
  /\ caught = NoError
  /\ logged = << >>
  /\ result = [state |-> "pending", error |-> NoError]
  /\ eventQueue = NoEvents
  /\ \E input \in ShrinkInputs :
       shrinking = [NoShrink EXCEPT !.pc = "called", !.input = input.data,
                                    !.data = input.data, !.maxSize = input.maxSize]

ShrinkNext ==
  \/ MeasureBatch
  \/ ShrinkIteration
  \/ ShrinkReturns

ShrinkSpec == ShrinkInit /\ [][ShrinkNext]_vars

\* ----------------------------------------------- generateRelationshipType
\* A _type is modelled by what split('_') makes of it: its parts, a
\* non-empty sequence of strings without underscore. '' is << "" >>, 'a_'
\* is << "a", "" >>, and joining two strings with '_' joins their parts.

\* parts.join('_'): no part at all gives ''
join(parts) == IF parts = << >> THEN << "" >> ELSE parts

\* parts.slice(i), i counted from zero
slice(parts, i) == SubSeq(parts, i + 1, Len(parts))

\* _class.toLowerCase() of the relationship classes in use
toLowerCase(class) ==
  CASE class = "HAS" -> "has"
    [] class = "Uses" -> "uses"
    [] OTHER -> class

\* variant: a while loop, the test comes before the first comparison
whileLoop(from, to, i) ==
  LET RECURSIVE while(_)
      while(k) ==
        IF k < Len(to) - 1 /\ k + 1 <= Len(from) /\ to[k + 1] = from[k + 1]
        THEN while(k + 1) ELSE k
  IN while(i)

RECURSIVE doWhile(_, _, _)
\* do { if (to[i] === from[i]) i++; else break; } while (i < to.length - 1)
doWhile(from, to, i) ==
  IF i + 1 <= Len(from) /\ to[i + 1] = from[i + 1]
  THEN IF i + 1 < Len(to) - 1 THEN doWhile(from, to, i + 1) ELSE i + 1
  ELSE i

\* generateRelationshipType(_class, from, to): throws when from or to is ''
generateRelationshipType(class, from, to) ==
  IF from = << "" >> \/ to = << "" >>
  THEN [outcome |-> "threw", _type |-> << >>]
  ELSE [outcome |-> "returned",
        _type |-> from \o << toLowerCase(class) >> \o join(slice(to, doWhile(from, to, 0)))]

\* the call returns or throws
GenerateRelationshipType ==
  /\ relationship.pc = "called"
  /\ LET generated == generateRelationshipType(relationship._class, relationship.from,
                                               relationship.to)
     IN relationship' = [relationship EXCEPT !.pc = generated.outcome,
                                             !._type = generated._type]
  /\ UNCHANGED << scheduler, uploader, signal >>

\* the parts and the types of the calls below: up to three parts
TypeParts == {"test", "user", ""}
MaxParts == 3
EntityTypes == UNION { [1..n -> TypeParts] : n \in 1..MaxParts }
RelationshipClasses == {"HAS", "Uses"}

\* generateRelationshipType is called with a class and two types
TypeInit ==
  /\ schedulerIdle
  /\ uploaderIdle
  /\ \E class \in RelationshipClasses : \E from \in EntityTypes : \E to \in EntityTypes :
       relationship = [NoCall EXCEPT !.pc = "called", !._class = class,
                                     !.from = from, !.to = to]

TypeNext == GenerateRelationshipType

TypeSpec == TypeInit /\ [][TypeNext]_vars

\* ================================================================ claims
resolved == outcome.state = "resolved"
resultOf(s) ==
  outcome.integrationStepResults[CHOOSE i \in 1..Len(integrationSteps) : integrationSteps[i] = s]
partialDatasetTypes == Range(outcome.types)
failedOrPartial == {FAILURE, PARTIAL_SUCCESS_DUE_TO_DEPENDENCY_FAILURE}
resultsComplete ==
  /\ resolved
  /\ Len(outcome.integrationStepResults) = Len(integrationSteps)
  /\ \A i \in 1..Len(integrationSteps) :
       /\ outcome.integrationStepResults[i].id = integrationSteps[i]
       /\ outcome.integrationStepResults[i].status \in TerminalStatuses

\* C1: a step's executionHandler is never invoked before every step of its
\* dependsOn has reached a terminal status.
C1_NoStartBeforeDependencies ==
  \A s \in Steps :
    invoked[s] > 0 => \A d \in dependsOn[s] : status[d] \in TerminalStatuses

\* a step with two dependencies is running while nothing else is
C1_Witness ==
  \E s \in Steps :
    /\ status[s] = RUNNING
    /\ Cardinality(dependsOn[s]) = 2
    /\ \E d \in dependsOn[s] : status[d] = FAILURE

stepProgress(s) ==
  IF status[s] = PENDING THEN 0
  ELSE IF status[s] = RUNNING THEN 1 + adds[s]
  ELSE MaxAdds + 2

phaseProgress ==
  CASE phase = "validate" -> 0
    [] phase = "startStates" -> 1
    [] phase = "startStatesPending" -> 2
    [] phase = "collect" -> 3
    [] phase = "done" -> 4

RECURSIVE sumProgress(_)
sumProgress(S) ==
  IF S = {} THEN 0
  ELSE LET s == CHOOSE x \in S : TRUE IN stepProgress(s) + sumProgress(S \ {s})

runProgress == phaseProgress + sumProgress(Steps)

C2_NeverStuck ==
  ~hasWork =>
     /\ phase = "done"
     /\ (\E s \in Steps : status[s] # PENDING) => resultsComplete

C2_Progress ==
  /\ runProgress' > runProgress
  /\ runProgress' <= 4 + Cardinality(Steps) * (MaxAdds + 2)

\* C2: the run terminates (every step of the run makes bounded progress and
\* the run never stops short of its end), and a run that collected ends with
\* exactly one result per declared step, each in a terminal status; no step
\* stays pending or is skipped because a predecessor failed.
C2_RunTerminates == []C2_NeverStuck /\ [][C2_Progress]_vars

\* the run resolved although a predecessor failed: its dependent has a result
C2_Witness ==
  /\ resultsComplete
  /\ \E s \in Steps : \E d \in dependsOn[s] :
       /\ resultOf(d).status = FAILURE
       /\ invoked[s] = 1

\* C3: an enabled step with a predecessor in FAILURE or PARTIAL_SUCCESS is
\* still executed and ends PARTIAL_SUCCESS when its handler completes without
\* error; a step ends SUCCESS only if its handler completed without error and
\* no predecessor ended in one of those two statuses.
C3_DependencyFailureStatus ==
  \A s \in Steps :
    LET depFailed == \E d \in dependsOn[s] : status[d] \in failedOrPartial
    IN /\ status[s] = SUCCESS =>
            /\ invoked[s] = 1
            /\ stepError[s] = "none"
            /\ ~depFailed
       /\ (status[s] \in TerminalStatuses /\ ~stepStartStates[s].disabled /\ depFailed) =>
            /\ invoked[s] = 1
            /\ stepError[s] = "none" => status[s] = PARTIAL_SUCCESS_DUE_TO_DEPENDENCY_FAILURE

\* a step completed below a predecessor that itself is a partial success
C3_Witness ==
  \E s \in Steps : \E d \in dependsOn[s] :
    /\ status[d] = PARTIAL_SUCCESS_DUE_TO_DEPENDENCY_FAILURE
    /\ status[s] = PARTIAL_SUCCESS_DUE_TO_DEPENDENCY_FAILURE
    /\ stepError[s] = "none"

\* C4: a handler that throws never rejects the run: the step's result is
\* FAILURE, and when the run is over it resolved with a full result vector.
C4_HandlerErrorCaptured ==
  /\ \A s \in Steps : stepError[s] = "handler" => status[s] = FAILURE
  /\ outcome.state = "rejected" => \A s \in Steps : invoked[s] = 0
  /\ (phase = "done" /\ \E s \in Steps : invoked[s] > 0) =>
       /\ resultsComplete
       /\ \A s \in Steps : stepError[s] = "handler" => resultOf(s).status = FAILURE

\* the run resolved with one handler having thrown and another step succeeded
C4_Witness ==
  /\ resultsComplete
  /\ \E s \in Steps : \E o \in Steps :
       /\ stepError[s] = "handler"
       /\ resultOf(s).status = FAILURE
       /\ resultOf(o).status = SUCCESS

C5_NoDuplicateKeys ==
  \A i \in 1..Len(graphObjectStore) : \A j \in 1..Len(graphObjectStore) :
    graphObjectStore[i]._key = graphObjectStore[j]._key => i = j

C5_Rejection ==
  \A s \in Steps :
    (stepError[s] # "duplicate" /\ stepError'[s] = "duplicate") =>
      /\ status'[s] = FAILURE
      /\ Len(graphObjectStore') >= Len(graphObjectStore)
      /\ SubSeq(graphObjectStore', 1, Len(graphObjectStore)) = graphObjectStore
      /\ \A i \in (Len(graphObjectStore) + 1)..Len(graphObjectStore') :
           graphObjectStore'[i].stepId = s
      /\ \A o \in Steps \ {s} :
           /\ status'[o] = status[o]
           /\ stepError'[o] = stepError[o]
           /\ encounteredTypes'[o] = encounteredTypes[o]

\* C5: no two admitted entities ever share a _key; an add of an admitted
\* _key is rejected, fails the step that attempted it and leaves the entities
\* admitted before and every other step as they were.
C5_DuplicateKeyRejected == []C5_NoDuplicateKeys /\ [][C5_Rejection]_vars

\* a step failed on a key that another, still running, step had admitted
C5_Witness ==
  \E s \in Steps : \E o \in Steps \ {s} :
    /\ stepError[s] = "duplicate"
    /\ status[s] = FAILURE
    /\ status[o] = RUNNING
    /\ \E i \in 1..Len(graphObjectStore) : graphObjectStore[i].stepId = o
    /\ \A i \in 1..Len(graphObjectStore) : graphObjectStore[i].stepId # s

typesWrittenBy(s) ==
  { graphObjectStore[i]._type :
      i \in { j \in 1..Len(graphObjectStore) : graphObjectStore[j].stepId = s } }

\* C6: a step's encounteredTypes is exactly the set of _type values of the
\* objects it added: the objects before the first duplicate of a batch count,
\* the rejected duplicate does not.
C6_EncounteredTypesExact ==
  \A s \in Steps :
    /\ Range(encounteredTypes[s]) = typesWrittenBy(s)
    /\ Len(encounteredTypes[s]) = Cardinality(typesWrittenBy(s))
    /\ resolved => resultOf(s).encounteredTypes = encounteredTypes[s]

\* one step failed on the second entity of its batch and kept the type of the
\* first, another failed on its only add and has no type
C6_Witness ==
  /\ resolved
  /\ \E s \in Steps : \E o \in Steps \ {s} :
       /\ stepError[s] = "duplicate"
       /\ resultOf(s).encounteredTypes # << >>
       /\ stepError[o] = "duplicate"
       /\ resultOf(o).encounteredTypes = << >>

\* C7: partialDatasets.types holds every declaredType of every FAILURE or
\* PARTIAL_SUCCESS step, holds nothing but such types and partialTypes, and
\* is empty when every step succeeded and none declares a partial type.
C7_PartialDatasetTypes ==
  resolved =>
    /\ \A s \in Steps :
         resultOf(s).status \in failedOrPartial =>
           Range(declaredTypes(s)) \subseteq partialDatasetTypes
    /\ \A t \in partialDatasetTypes :
         \/ \E s \in Steps :
              resultOf(s).status \in failedOrPartial /\ t \in Range(declaredTypes(s))
         \/ \E s \in Steps : t \in Range(partialTypes(s))
    /\ (\A s \in Steps : resultOf(s).status = SUCCESS /\ partialTypes(s) = << >>) =>
         outcome.types = << >>

\* a failed step and a dependent partial success both put their types in
C7_Witness ==
  /\ resolved
  /\ \E s \in Steps : \E d \in dependsOn[s] :
       /\ resultOf(d).status = FAILURE
       /\ resultOf(s).status = PARTIAL_SUCCESS_DUE_TO_DEPENDENCY_FAILURE
       /\ declaredTypes(d) = << "test_a" >>
       /\ declaredTypes(s) = << "test_b", "test_c" >>
  /\ outcome.types = << "test_a", "test_b", "test_c" >>

C9_DisabledStepContributesNothing ==
  resolved =>
    /\ \A s \in Steps :
         resultOf(s).status = DISABLED => resultOf(s).partialTypes = partialTypes(s)
    /\ \A t \in partialDatasetTypes :
         \E o \in Steps :
           /\ resultOf(o).status # DISABLED
           /\ \/ t \in Range(partialTypes(o))
              \/ resultOf(o).status \in failedOrPartial /\ t \in Range(declaredTypes(o))

\* a disabled step declares test_b partial, another step failed, and the
\* list holds the failed step's type only
C9_Witness ==
  /\ resolved
  /\ \E s \in Steps : \E o \in Steps :
       /\ resultOf(s).status = DISABLED
       /\ resultOf(s).partialTypes = << "test_b" >>
       /\ resultOf(o).status = FAILURE
  /\ outcome.types = << "test_a" >>

\* C10: a step whose start state is disabled never has its handler invoked
\* and ends DISABLED with encounteredTypes = [], while the enabled steps of the
\* run are executed and get their own statuses.
C10_DisabledStepNotExecuted ==
  \A s \in Steps :
    IF stepStartStates[s].disabled
    THEN /\ invoked[s] = 0
         /\ encounteredTypes[s] = << >>
         /\ status[s] \in {PENDING, DISABLED}
         /\ resolved =>
              /\ resultOf(s).status = DISABLED
              /\ resultOf(s).encounteredTypes = << >>
    ELSE /\ status[s] # DISABLED
         /\ resolved =>
              /\ invoked[s] = 1
              /\ resultOf(s).status \in TerminalStatuses \ {DISABLED}

\* the run resolved with a disabled step and an enabled step that depends on it
C10_Witness ==
  /\ resolved
  /\ \E s \in Steps : \E o \in Steps :
       /\ stepStartStates[s].disabled
       /\ resultOf(s).status = DISABLED
       /\ s \in dependsOn[o]
       /\ ~stepStartStates[o].disabled
       /\ resultOf(o).status = SUCCESS

\* no handler ran and nothing was recorded for any step
noStepTouched ==
  /\ \A s \in Steps : invoked[s] = 0 /\ status[s] = PENDING /\ adds[s] = 0
  /\ graphObjectStore = << >>
  /\ outcome.integrationStepResults = << >>

\* some steps depend on one another in a circle: a non-empty set of steps
\* each of which depends on a step of the set
dependsOnHasCycle ==
  \E C \in (SUBSET Steps) \ {{}} : \A s \in C : dependsOn[s] \cap C # {}

\* C11: when validateInvocation rejects, logger.validationFailure is called
\* exactly once, the run rejects with that same error, no executionHandler is
\* invoked and no step result is written; without such a rejection
\* validationFailure is never called.
C11_ValidationFailureLoggedAndRethrown ==
  /\ validationFailures \in {0, 1}
  /\ validationFailures = 1 <=> outcome.error = "validateInvocation"
  /\ validationFailures = 1 =>
       /\ phase = "done"
       /\ outcome.state = "rejected"
       /\ noStepTouched

\* validateInvocation rejected a run whose steps were all enabled and orderable
C11_Witness ==
  /\ validationFailures = 1
  /\ outcome.state = "rejected"
  /\ outcome.error = "validateInvocation"
  /\ startStatesMissing = {}
  /\ ~dependsOnHasCycle
  /\ \A s \in Steps : isStepEnabled(s)

\* C12: when the result of getStepStartStates lacks the entry of a step, no
\* executionHandler is ever invoked, the run never collects, and once
\* validateInvocation has passed it fails with 'Start states not found',
\* which is not reported through logger.validationFailure.
C12_MissingStartStatesRejected ==
  /\ startStatesMissing # {} =>
       /\ noStepTouched
       /\ phase # "collect"
       /\ (phase = "done" /\ validationFailures = 0) =>
            /\ outcome.state = "rejected"
            /\ outcome.error = "Start states not found"
  /\ outcome.error = "Start states not found" =>
       /\ startStatesMissing # {}
       /\ validationFailures = 0

\* the start states of one step only were missing and the run was rejected
C12_Witness ==
  /\ Cardinality(startStatesMissing) = 1
  /\ phase = "done"
  /\ outcome.state = "rejected"
  /\ outcome.error = "Start states not found"
  /\ validationFailures = 0

\* C13: a step set whose dependsOn relation contains a cycle never collects
\* and has no executionHandler invoked; once validateInvocation has passed and
\* the start states are complete the run is rejected with CYCLIC_DEPENDENCY.
C13_CyclicDependencyRejected ==
  /\ dependsOnHasCycle =>
       /\ noStepTouched
       /\ phase # "collect"
       /\ (phase = "done" /\ validationFailures = 0 /\ startStatesMissing = {}) =>
            /\ outcome.state = "rejected"
            /\ outcome.error = "CYCLIC_DEPENDENCY"
  /\ outcome.error = "CYCLIC_DEPENDENCY" => dependsOnHasCycle

\* a cycle through all three steps was rejected
C13_Witness ==
  /\ outcome.state = "rejected"
  /\ outcome.error = "CYCLIC_DEPENDENCY"
  /\ \A s \in Steps : \A d \in dependsOn[s] : s \notin dependsOn[d]
  /\ \A s \in Steps : dependsOn[s] # {}

\* ------------------------------------------------------ uploader claims
RECURSIVE countObjects(_)
\* the graph objects of a sequence of files
countObjects(fs) ==
  IF fs = << >> THEN 0
  ELSE Len(Head(fs).entities) + Len(Head(fs).relationships) + countObjects(Tail(fs))

batchPosted(b) == batches[b].state # "queued"

\* C14: no batch is posted before the job was initiated and created; the
\* finalize request is issued once, only when every file was iterated, every
\* graph object of every file was accepted and no batch is pending or
\* failed, and its body is the partialDatasets of summary.json.
C14_InitiateUploadFinalizeOrder ==
  /\ (lastPost # NoPost \/ \E b \in 1..Len(batches) : batchPosted(b)) =>
       /\ api.initiate = 1
       /\ api.job # "none"
  /\ api.finalize \in {0, 1}
  /\ api.finalize = 1 =>
       /\ cursor.file = Len(files)
       /\ allResolved(batches)
       /\ api.uploaded = countObjects(files)
       /\ api.finalizeBody = partialDatasets

\* a job that took two batches of entities and one of relationships was
\* finalized with the partial datasets of the summary
C14_Witness ==
  /\ api.job = "FINALIZED"
  /\ Len(files) = 2
  /\ api.uploaded = UPLOAD_BATCH_SIZE + 3
  /\ api.finalizeBody = << "test_a" >>
  /\ result.state = "resolved"

\* C15: a failure of upload or finalize after the job was initiated is
\* caught once: exactly one abort request is issued, its reason is the
\* message of the caught error, and when the abort succeeded the caught
\* error is the one raised to the caller. Without such a failure no abort
\* request is issued.
C15_AbortOnceWithReason ==
  /\ api.abort \in {0, 1}
  /\ api.abort = 1 <=> caught # NoError
  /\ (\E b \in 1..Len(batches) : batches[b].state = "rejected") => api.abort = 1
  /\ api.abort = 1 =>
       /\ api.initiate = 1
       /\ api.job \in {"AWAITING_UPLOADS", "ABORTED"}
       /\ api.abortReason = caught.message
       /\ pc \in {"aborting", "draining", "done"}
       /\ api.finalize = 1 => caught.message = "Error occurred while finalizing synchronization job."
  /\ api.job = "ABORTED" =>
       /\ pc \in {"draining", "done"}
       /\ pc = "draining" => eventQueue.settle = [state |-> "rejected", error |-> caught]
       /\ pc = "done" => result = [state |-> "rejected", error |-> caught]

\* a batch ran out of attempts, the job was aborted with the message of the
\* upload error and that error was raised
C15_Witness ==
  /\ api.job = "ABORTED"
  /\ api.abortReason = "Error uploading collected data"
  /\ result.error = caught
  /\ \E b \in 1..Len(batches) :
       batches[b].state = "rejected" /\ batches[b].attemptsRemaining = 0 /\ batches[b].attemptNum = 4

RECURSIVE concat(_)
\* the items of the batches, one batch after the other
concat(bs) == IF bs = << >> THEN << >> ELSE Head(bs).data \o concat(Tail(bs))

\* C16: the batches of an uploadData call are the array cut into consecutive
\* slices of uploadBatchSize items (250 when it is not given): put end to
\* end they are the array, every batch but the last has exactly that many
\* items, the last has between one and that many, and no posted batch is
\* empty.
C16_BatchesPartitionTheArray ==
  pc = "uploading" =>
    LET limit == IF uploadBatchSize # 0 THEN uploadBatchSize ELSE UPLOAD_BATCH_SIZE
    IN /\ concat(batches) = dataOf(cursor.file, cursor.type)
       /\ batches # << >>
       /\ \A i \in 1..Len(batches) :
            /\ Len(batches[i].data) \in 1..limit
            /\ i < Len(batches) => Len(batches[i].data) = limit
       /\ lastPost.data # << >>

\* seven entities in batches of three: two full batches and one of one item
C16_Witness ==
  /\ pc = "uploading"
  /\ cursor.type = "entities"
  /\ uploadBatchSize = 3
  /\ Len(batches) = 3
  /\ Len(batches[3].data) = 1
  /\ batches[3].data[1]._key = 7
  /\ batches[3].state = "resolved"

\* C17: at most 6 batches are being uploaded at any moment, a batch in retry
\* back-off included, whatever the file and the array they come from.
C17_AtMostSixBatchesInFlight ==
  Cardinality({ b \in 1..Len(batches) : batches[b].state \in {"posting", "backoff"} })
    <= UPLOAD_CONCURRENCY

\* six batches are in flight, one of them in back-off, and a seventh waits
C17_Witness ==
  /\ Cardinality(inFlightBatches(batches)) = UPLOAD_CONCURRENCY
  /\ \E b \in 1..Len(batches) : batches[b].state = "backoff"
  /\ \E b \in 1..Len(batches) : batches[b].state = "queued"

\* the attempts made for batch b so far
attemptsMade(b) == IF batches[b].state = "queued" THEN 0 ELSE batches[b].attemptNum + 1

C18_AttemptsBounded ==
  \A b \in 1..Len(batches) :
    /\ attemptsMade(b) <= maxAttempts
    /\ batches[b].state = "resolved" => result.state = "resolved"
    /\ (lastFailure.batch = b /\ lastFailure.attemptsRemaining = 0 /\ pc # "hung") =>
         /\ attemptsMade(b) = maxAttempts
         /\ batches[b].state = "rejected"
         /\ result.state = "rejected"
         /\ result.error = lastFailure.threw
         /\ result.error # NoError

C18_NoAttemptOnceSettled ==
  \A b \in 1..Len(batches) :
    batches[b].state \in {"resolved", "rejected"} =>
      /\ batches' = batches
      /\ lastPost' = lastPost

jobEnded(err) == err.body = "JOB_NOT_AWAITING_UPLOADS"
tooLarge(err) == err.status = 413 \/ err.code = "RequestEntityTooLargeException"
raisedJobEnded ==
  /\ result.state = "rejected"
  /\ result.error.code = "INTEGRATION_UPLOAD_AFTER_JOB_ENDED"
  /\ result.error.fatal

C20_BatchShrunkInPlace ==
  \A b \in 1..Len(batches) :
    (lastFailure.batch = b /\ tooLarge(lastFailure.err) /\ batches[b].state = "backoff") =>
      /\ lastFailure.shrunk
      /\ lastFailure.attemptsRemaining > 0
      /\ batches[b].data = shrinkRawData(lastFailure.sent, UPLOAD_SIZE_MAX).data

C20_NextPostCarriesShrunk ==
  \A b \in 1..Len(batches) :
    (lastFailure.batch = b /\ tooLarge(lastFailure.err)
       /\ batches[b].state = "backoff" /\ batches'[b].state = "posting") =>
      /\ lastPost'.batch = b
      /\ lastPost'.data = shrinkRawData(lastFailure.sent, UPLOAD_SIZE_MAX).data

\* C20: after a too-large failure (status 413 or code
\* RequestEntityTooLargeException) with attempts remaining, the batch that
\* waits for its next attempt is the failed one as shrinkRawData left it, and
\* the next request carries that shrunk batch.
C20_ShrunkBatchIsRetried == []C20_BatchShrunkInPlace /\ [][C20_NextPostCarriesShrunk]_vars

\* a batch above the limit was answered 413 and posted again, truncated to
\* fit
C20_Witness ==
  /\ batches[1].state = "posting"
  /\ lastFailure.batch = 1
  /\ lastFailure.err.status = 413
  /\ byteLength(lastFailure.sent) > UPLOAD_SIZE_MAX
  /\ lastPost.data # lastFailure.sent
  /\ byteLength(lastPost.data) <= UPLOAD_SIZE_MAX
  /\ lastPost.data[1]._rawData[1].rawData[1] = TRUNCATED


\* C21: shrinkRawData terminates for every batch: each iteration of its loop
\* strictly reduces the tracked serialized size, and when no reduction is
\* possible it aborts with CANNOT_SHRINK instead of looping or failing
\* otherwise. Stated of every step of a call: the step returns, or lowers
\* the tracked size, or ends the call with CANNOT_SHRINK.
C21_Original ==
  [][ shrinking.pc = "looping" =>
        \/ shrinking'.pc = "returned"
        \/ shrinking'.pc = "CANNOT_SHRINK"
        \/ shrinking'.pc = "looping" /\ shrinking'.totalSize < shrinking.totalSize ]_vars

\* C22: whenever shrinkRawData returns, the serialized size of the batch is
\* at most maxSize; a batch that was within maxSize when the call was made
\* is returned as it was, with nothing truncated.
C22_ReturnsWithinMaxSize ==
  shrinking.pc = "returned" =>
    /\ byteLength(shrinking.data) <= shrinking.maxSize
    /\ byteLength(shrinking.input) <= shrinking.maxSize =>
         shrinking.data = shrinking.input /\ shrinking.itemsRemoved = 0

\* a call that returned after truncating two fields of a batch of two items
C22_Witness ==
  /\ shrinking.pc = "returned"
  /\ shrinking.itemsRemoved = 2
  /\ Len(shrinking.data) = 2
  /\ byteLength(shrinking.input) > shrinking.maxSize

\* C23: every event the logger enqueued during the synchronization has been
\* published before the finalize request is issued and before finalize
\* returns: from the finalize request on, the event queue is drained.
C23_Original ==
  api.finalize > 0 => queueIdle(eventQueue)

\* C24: once the cancellation signal has been given, no batch that waits
\* for its next attempt makes another POST, the finalize request is not
\* issued, and a synchronization that ends with a job initiated has issued
\* the abort request.
C24_Original ==
  [][ signal =>
        /\ ~ \E b \in 1..Len(batches) :
               /\ cursor' = cursor
               /\ batches[b].state = "backoff"
               /\ batches'[b].state = "posting"
        /\ api'.finalize = api.finalize
        /\ (pc # "done" /\ pc' = "done" /\ api.initiate > 0 /\ api.job # "none")
             => api'.abort > 0 ]_vars

\* C25: once cancellation is requested a step that was not started is never
\* started and ends CANCELLED, and a step only becomes CANCELLED that way;
\* a step whose handler is in flight runs on to the status it would have
\* had without the cancellation.
C25_Step ==
  \A s \in Steps :
    /\ (signal /\ status[s] = PENDING) =>
         /\ status'[s] \in {PENDING, CANCELLED}
         /\ invoked'[s] = invoked[s]
    /\ (status[s] # CANCELLED /\ status'[s] = CANCELLED) =>
         signal /\ status[s] = PENDING /\ invoked[s] = 0
    /\ status[s] = RUNNING =>
         status'[s] \in {RUNNING, SUCCESS, FAILURE, PARTIAL_SUCCESS_DUE_TO_DEPENDENCY_FAILURE}

C25_Ends ==
  (phase = "done" /\ resolved /\ signal) =>
    \A s \in Steps :
      /\ status[s] \in TerminalStatuses
      /\ (invoked[s] = 0 /\ status[s] # DISABLED) => status[s] = CANCELLED
      /\ invoked[s] > 0 => status[s] \in {SUCCESS, FAILURE, PARTIAL_SUCCESS_DUE_TO_DEPENDENCY_FAILURE}

C25_CancelledStepsNeverStart == []C25_Ends /\ [][C25_Step]_vars

\* a cancelled run that ended with a step that ran to SUCCESS, a step that
\* ran to FAILURE and a step that was never started
C25_Witness ==
  /\ phase = "done" /\ signal
  /\ \E s \in Steps : status[s] = SUCCESS /\ invoked[s] = 1
  /\ \E s \in Steps : status[s] = FAILURE /\ invoked[s] = 1
  /\ \E s \in Steps : status[s] = CANCELLED /\ invoked[s] = 0

\* C26: in a run that executes its steps the afterExecution hook is called
\* exactly once, when every step has a terminal status, whether or not a
\* step failed; the call, throwing or not, changes no step result, and the
\* run resolves with the results and partial datasets of the steps.
C26_Step ==
  afterExecution' # afterExecution =>
    /\ afterExecution'.calls = afterExecution.calls + 1
    /\ UNCHANGED << status, stepError, encounteredTypes, outcome, summaryJson >>

C26_Once ==
  /\ afterExecution.calls <= 1
  /\ afterExecution.calls = 1 => \A s \in Steps : status[s] \in TerminalStatuses
  /\ (phase = "done" /\ resolved) =>
       /\ options.afterExecution => afterExecution.calls = 1
       /\ outcome.integrationStepResults =
            [i \in 1..Len(integrationSteps) |-> stepResult(integrationSteps[i])]
       /\ outcome.types = determinePartialDatasets(outcome.integrationStepResults)

C28_MarkerFollowsOption ==
  phase = "done" =>
    /\ (options.locally \/ options.enableSchemaValidation) => env.marker # "undefined"
    /\ (~options.locally /\ ~options.enableSchemaValidation /\ env.atStart = "undefined")
         => env.marker = "undefined"

\* a resolved run of executeIntegrationLocally that found the variable undefined
C28_Witness ==
  /\ phase = "done" /\ resolved
  /\ options.locally /\ ~options.enableSchemaValidation
  /\ env = [atStart |-> "undefined", marker |-> "true"]

\* C29: at the end of the run ENABLE_GRAPH_OBJECT_SCHEMA_VALIDATION has the
\* value it had before the run.
C29_Original ==
  phase = "done" => env.marker = env.atStart

\* C30: every entity admitted by a step S that a started step S' depends
\* on, directly or through other steps, is found by findEntity and yielded by
\* iterateEntities, flushed or not; and S admits nothing more once S' has
\* started.
admittedBy(store, s) == { i \in 1..Len(store) : store[i].stepId = s }

C30_Visible ==
  \A t \in Steps : invoked[t] > 0 =>
    \A s \in dependenciesOf({t}, {}) : \A i \in admittedBy(graphObjectStore, s) :
      /\ findEntity(graphObjectStore[i]._key) = graphObjectStore[i]
      /\ graphObjectStore[i] \in Range(iterateEntities(graphObjectStore[i]._type))

C30_Step ==
  \A t \in Steps : invoked[t] > 0 =>
    \A s \in dependenciesOf({t}, {}) :
      admittedBy(graphObjectStore', s) = admittedBy(graphObjectStore, s)

C31_Original ==
  [][ api.abort > 0 =>
        ~ \E b \in 1..Len(batches) :
            /\ b <= Len(batches')
            /\ batches[b].state # "posting"
            /\ batches'[b].state = "posting" ]_vars

\* C32: in one synchronizeCollectedData call a finalized job is never
\* aborted, no finalize request is issued once a batch upload has failed,
\* and no abort request is issued while no job exists (the initiate request
\* failed or is not answered yet).
C32_Exclusive ==
  /\ api.job = "FINALIZED" => api.abort = 0
  /\ (\E b \in 1..Len(batches) : batches[b].state = "rejected") => api.finalize = 0
  /\ api.job = "none" => api.abort = 0
  /\ api.finalize <= 1 /\ api.abort <= 1

C32_Step ==
  /\ api.job = "FINALIZED" => api'.job = "FINALIZED" /\ api'.abort = api.abort
  /\ (\E b \in 1..Len(batches) : batches[b].state = "rejected") => api'.finalize = api.finalize
  /\ (api.job = "none" /\ result.state = "rejected") => api' = api

C32_FinalizeOrAbort == []C32_Exclusive /\ [][C32_Step]_vars

\* a call that ended after a batch gave up: aborted, never finalized
C32_Witness ==
  /\ pc = "done"
  /\ \E b \in 1..Len(batches) : batches[b].state = "rejected"
  /\ api.abort = 1 /\ api.job = "ABORTED" /\ api.finalize = 0

\* C33: when the abort request has failed, synchronizeCollectedData rejects
\* with the abort error, which was logged; the upload or finalize error that
\* led to the abort was logged before it and is not the one raised.
settledWith ==
  IF pc = "done" THEN result
  ELSE IF pc = "draining" THEN eventQueue.settle
  ELSE [state |-> "pending", error |-> NoError]

abortFailed == api.abort = 1 /\ api.job # "ABORTED" /\ pc \in {"draining", "done"}

C33_AbortErrorRaised ==
  abortFailed =>
    /\ settledWith.state = "rejected"
    /\ settledWith.error.message = "Error occurred while aborting synchronization job"
    /\ settledWith.error # caught
    /\ Len(logged) = 2
    /\ logged[1].err = caught
    /\ logged[2].err = settledWith.error

\* a call that ended after a batch gave up and the abort request failed
C33_Witness ==
  /\ abortFailed /\ pc = "done"
  /\ \E b \in 1..Len(batches) : batches[b].state = "rejected"
  /\ caught.message = "Error uploading collected data"

\* C34: synchronizeCollectedData is not settled, resolved or rejected,
\* while the event publishing queue still holds an unpublished event: on the
\* success path, after a failed upload or finalize, and after a failed abort.
C34_Settled ==
  result.state # "pending" => /\ pc = "done"
                              /\ queueIdle(eventQueue)

C34_Step ==
  (result.state = "pending" /\ result'.state # "pending") =>
    /\ queueIdle(eventQueue')
    /\ pc \in {"initiating", "finalizing", "aborting", "draining"}
    /\ pc = "draining" => result' = eventQueue.settle

C34_SettlesAfterQueueIdle == []C34_Settled /\ [][C34_Step]_vars

\* a call that rejected with the abort error after it waited for the queue
C34_Witness ==
  /\ pc = "done" /\ abortFailed
  /\ eventQueue.settle = result
  /\ eventQueue.enqueued > 0
  /\ result.error.message = "Error occurred while aborting synchronization job"

\* C35 as stated: the '(will retry)' warning of a failed attempt is logged
\* only when the error is not a too-large error, not
\* JOB_NOT_AWAITING_UPLOADS and not a CredentialsError, and an attempt
\* remains.
C35_Original ==
  (lastFailure.batch # 0 /\ lastFailure.warned) =>
    /\ ~isRequestUploadTooLargeError(lastFailure.err)
    /\ getSystemErrorResponseData(lastFailure.err) # "JOB_NOT_AWAITING_UPLOADS"
    /\ lastFailure.err.code # "CredentialsError"
    /\ lastFailure.attemptsRemaining > 0

\* the error handler came to its last statement: after a too-large error
\* shrinkRawData returned, otherwise the job has not ended
handlerReturned ==
  IF isRequestUploadTooLargeError(lastFailure.err)
  THEN shrinkRawData(lastFailure.sent, UPLOAD_SIZE_MAX).outcome = "returned"
  ELSE getSystemErrorResponseData(lastFailure.err) # "JOB_NOT_AWAITING_UPLOADS"

\* C35: the '(will retry)' warning of a failed attempt is logged exactly
\* when the handler came to its last statement, an attempt remains and the
\* error code is not CredentialsError: also after a too-large error whose
\* batch was shrunk; never for a CredentialsError, on the final failed
\* attempt, or when the job has ended.
C35_WarningLogged ==
  lastFailure.batch # 0 =>
    (lastFailure.warned <=> /\ handlerReturned
                            /\ lastFailure.attemptsRemaining > 0
                            /\ lastFailure.err.code # "CredentialsError")

\* a too-large failure with attempts left whose batch was shrunk and the
\* warning logged
C35_Witness ==
  /\ lastFailure.batch # 0
  /\ lastFailure.warned /\ lastFailure.shrunk
  /\ lastFailure.err.status = 413
  /\ lastFailure.sent # batches[lastFailure.batch].data

\* the first position of the largest of a sequence of lengths
isFirstLargest(lengths, i) ==
  /\ i \in 1..Len(lengths)
  /\ \A j \in 1..Len(lengths) : lengths[j] <= lengths[i]
  /\ \A j \in 1..(i - 1) : lengths[j] < lengths[i]

serializedLengths(fields) == [i \in 1..Len(fields) |-> fields[i].len]

\* C36: every iteration of shrinkRawData replaces exactly one field by the
\* TRUNCATED marker: the field with the largest serialized value in the
\* rawData of the largest _rawData entry of the largest entity, the first
\* one on ties, and the tracked size goes down by that field's size and up
\* by the size of the marker.
C36_Original ==
  [][ (shrinking.pc = "looping" /\ shrinking' # shrinking /\ shrinking'.pc # "returned") =>
        \E e \in 1..Len(shrinking.data) :
          /\ e = largestEntityKey(shrinking.data)
          /\ \E r \in 1..Len(shrinking.data[e]._rawData) :
               /\ r = largestRawDataEntryKey(shrinking.data[e]._rawData)
               /\ \E i \in 1..Len(shrinking.data[e]._rawData[r].rawData) :
                    /\ isFirstLargest(serializedLengths(shrinking.data[e]._rawData[r].rawData), i)
                    /\ shrinking'.data =
                         [shrinking.data EXCEPT ![e]._rawData[r].rawData[i] = TRUNCATED]
                    /\ shrinking'.totalSize =
                         shrinking.totalSize - shrinking.data[e]._rawData[r].rawData[i].len
                           + sizeOfTruncated ]_vars

\* the fields of the batch whose value is not the one the call was given
replacedFields(input, data) ==
  { p \in (1..Len(data)) \X (1..2) \X (1..3) :
      /\ p[2] <= Len(data[p[1]]._rawData)
      /\ p[3] <= Len(data[p[1]]._rawData[p[2]].rawData)
      /\ \/ p[2] > Len(input[p[1]]._rawData)
         \/ p[3] > Len(input[p[1]]._rawData[p[2]].rawData)
         \/ data[p[1]]._rawData[p[2]].rawData[p[3]] # input[p[1]]._rawData[p[2]].rawData[p[3]] }

\* C37: shrinkRawData changes nothing but values of rawData fields that
\* exist: the batch keeps its items, every item its properties outside
\* _rawData and its _rawData entries, every entry its field names, and
\* itemsRemoved is the number of fields whose value was replaced.
C37_Original ==
  shrinking.pc \in {"looping", "returned", "TypeError"} =>
    /\ Len(shrinking.data) = Len(shrinking.input)
    /\ \A e \in 1..Len(shrinking.data) :
         /\ shrinking.data[e]._key = shrinking.input[e]._key
         /\ shrinking.data[e].size = shrinking.input[e].size
         /\ Len(shrinking.data[e]._rawData) = Len(shrinking.input[e]._rawData)
         /\ \A r \in 1..Len(shrinking.data[e]._rawData) :
              Len(shrinking.data[e]._rawData[r].rawData)
                = Len(shrinking.input[e]._rawData[r].rawData)
    /\ shrinking.itemsRemoved = Cardinality(replacedFields(shrinking.input, shrinking.data))

\* how many leading parts of to equal the parts of from at their positions
sharedParts(from, to) ==
  Cardinality({ k \in 1..Len(to) :
                  \A j \in 1..k : j <= Len(from) /\ to[j] = from[j] })

\* how many of them are left out: the last part of to stays when to has two
\* parts or more
droppedParts(from, to) ==
  IF Len(to) = 1 THEN sharedParts(from, to)
  ELSE IF sharedParts(from, to) < Len(to) THEN sharedParts(from, to) ELSE Len(to) - 1

\* the parts of the returned _type after those of from and the class
restOf(call) == SubSeq(call._type, Len(call.from) + 2, Len(call._type))

C38_Shape ==
  relationship.pc = "returned" =>
    /\ SubSeq(relationship._type, 1, Len(relationship.from)) = relationship.from
    /\ relationship._type[Len(relationship.from) + 1] \in {"has", "uses"}
    /\ relationship._class = "HAS" => relationship._type[Len(relationship.from) + 1] = "has"
    /\ restOf(relationship) =
         join(slice(relationship.to, droppedParts(relationship.from, relationship.to)))
    /\ Len(relationship.to) >= 2 =>
         /\ droppedParts(relationship.from, relationship.to) < Len(relationship.to)
         /\ relationship._type[Len(relationship._type)] = relationship.to[Len(relationship.to)]

\* C38 as stated: the returned _type is from, the class in lower case and
\* the rest of to, its leading parts shared with from left out and its last
\* part kept when it has two or more; the rest is empty only when to is a
\* single part equal to the first part of from.
C38_Original ==
  /\ C38_Shape
  /\ (relationship.pc = "returned" /\ restOf(relationship) = << "" >>) =>
       /\ Len(relationship.to) = 1
       /\ relationship.to[1] = relationship.from[1]

\* C38: the returned _type is from, the class in lower case and the rest
\* of to, its leading parts shared with from left out and its last part
\* kept when it has two or more; the rest is empty exactly when to is a
\* single part equal to the first part of from, or when the one part kept
\* of to is itself empty (to ends with an underscore and every part before
\* it is shared with from).
C38_GeneratedType ==
  /\ C38_Shape
  /\ relationship.pc = "returned" =>
       (restOf(relationship) = << "" >> <=>
          \/ Len(relationship.to) = 1 /\ relationship.to[1] = relationship.from[1]
          \/ /\ Len(relationship.to) >= 2
             /\ relationship.to[Len(relationship.to)] = ""
             /\ sharedParts(relationship.from, relationship.to) >= Len(relationship.to) - 1)

\* generateRelationshipType('HAS', 'test', 'test') returned 'test_has_'
C38_Witness ==
  /\ relationship.pc = "returned"
  /\ relationship._class = "HAS"
  /\ relationship.from = << "test" >> /\ relationship.to = << "test" >>
  /\ relationship._type = << "test", "has", "" >>
====
